---- MODULE Spec2Model ----
(***************************************************************************)
(* Scheduled rotation and pin-coordination engine of the forwarding bot:   *)
(* utils/bot_state.py (IdleState, RunningState, BotContext),               *)
(* utils/message_utils.py (find_latest_message), the pinned-message and    *)
(* last-message tables of database/repository.py and the handlers of       *)
(* bot.py that touch the same pinned-message records.                      *)
(*                                                                         *)
(* Spec      the engine with one action per handler / per tick-loop        *)
(*           iteration; every gateway call inside a handler has its        *)
(*           outcome chosen nondeterministically.                          *)
(* SpecLive  the same engine while it runs, with fairness of the tick.     *)
(* SpecFwd   forward_and_pin_message called directly on arbitrary stored   *)
(*           states of the source channel and of the destinations.         *)
(* SpecSlot  the activation of a slot by a tick: the unpin-all sweep, then *)
(*           forward_and_pin_message, on what an earlier slot left.        *)
(* SpecTask  the asyncio tasks: the tick-loop task of each RunningState    *)
(*           and the start()/stop() coroutines, one step per await.        *)
(* SpecRace  rotate_now and stop() interleaved at their awaits.            *)
(* SpecPure, SpecCache, SpecPool: the functions without state, the chat    *)
(*           cache and the database connection pool, each on its own.      *)
(***************************************************************************)
EXTENDS Integers, Sequences, FiniteSets, TLC

VARIABLES
    state,                  \* BotContext.state: "Idle" | "Running"
    last_check_date,        \* RunningState._last_check_date
    processed_slots,        \* RunningState._processed_slots
    current_active_channel, \* RunningState._current_active_channel
    current_pinned_message, \* RunningState._current_pinned_message
    day,                    \* wall clock: datetime.now().date()
    clk,                    \* wall clock: index of the time of day in ClockPoints
    schedules,              \* table schedule, as get_schedules returns it
    last_messages,          \* table last_messages: channel -> message id
    target_chats,           \* table target_chats, as get_target_chats returns it
    pinned_messages,        \* table pinned_messages: chat -> message id
    chat_pins,              \* gateway: chat -> the bot's messages pinned there
    test_pending,           \* test_pin_handler instances asleep: chat -> test message
    call,                   \* SpecFwd: the forward_and_pin_message call in progress
    log,                    \* SpecFwd: the calls of its last loop iteration
    report,                 \* what the last handler did and returned
    invoked_today,          \* slots a tick invoked the publish for, this calendar day
    skipped_today,          \* slots a tick marked without a publish, this calendar day
    succeeded_session,      \* slots a tick published, this day and this RunningState
    succeeded_activation,   \* slots a tick published, in their current activation
    ctx_state,              \* SpecTask: BotContext.state, "Idle" or a RunningState
    task,                   \* SpecTask: RunningState -> position of its _schedule_task
    stop_calls,             \* SpecTask: the stop() coroutines in flight
    next_instance,          \* SpecTask: the next RunningState to be constructed
    probe,                  \* SpecPure: a function applied, its arguments and result
    chat_cache,             \* SpecCache: ChatCacheService._cache, chat -> last_updated
    cache_now,              \* SpecCache: wall clock, index in CachePoints
    cache_pending,          \* SpecCache: get_chat_info calls awaiting the gateway
    cache_report,           \* SpecCache: what the last cache operation did
    cache_observers,        \* SpecCache: ChatCacheService._observers, in list order
    db_connections,         \* SpecPool: _active_connections, in_use of each
    db_acquirers            \* SpecPool: the callers of get_connection

engineVars == <<state, last_check_date, processed_slots, current_active_channel,
                current_pinned_message, day, clk, schedules, last_messages,
                target_chats, pinned_messages, chat_pins, test_pending, call, log, report,
                invoked_today, skipped_today, succeeded_session, succeeded_activation>>
taskVars == <<ctx_state, task, stop_calls, next_instance>>
pureVars == <<probe>>
cacheVars == <<chat_cache, cache_now, cache_pending, cache_report, cache_observers>>
poolVars == <<db_connections, db_acquirers>>
auxVars == <<pureVars, cacheVars, poolVars>>
vars == <<engineVars, taskVars, auxVars>>

None == 0

(***************************************************************************)
(* Bounds of the model.                                                    *)
(***************************************************************************)
NumDests == 2     \* chats the bot can be a member of
EngineDests == 1  \* target chats of Spec
MaxMsgId == 2     \* message ids of the bot's messages tracked per target chat
MaxDay == 1       \* calendar days 0..MaxDay
NumItems == 1     \* message ids of a source channel in Spec: ItemId(1)..
NumFwdItems == 3  \* message ids of the source channel in SpecFwd: ItemId(1)..
MaxInst == 3      \* RunningState objects created in SpecTask
MaxStops == 2     \* stop() calls in progress at once in SpecTask
NumCacheChats == 3  \* chats whose info is asked for in SpecCache
MaxCacheSize == 2   \* Config.max_cache_size, scaled down from 100
MaxPending == 2     \* get_chat_info calls awaiting the gateway at once
NumObservers == 2   \* objects that register as observers of the cache
MaxDbConnections == 2  \* Config.max_db_connections, scaled down from 5
NumAcquirers == 4      \* coroutines that call get_connection

Dests == 1..NumDests
MsgIds == 1..MaxMsgId
Channels == {"A", "B"}

(***************************************************************************)
(* find_latest_message: the search window.                                 *)
(***************************************************************************)
SearchMargin == 50
DefaultStart == 1000
MaxCheck == 200

\* Source message ids SearchMargin + 10 apart: each lies in the forward window of
\* the one before it.
ItemId(i) == 10 + 60 * (i - 1)
ItemsUpTo(n) == {ItemId(i) : i \in 1..n}
Items == ItemsUpTo(NumItems)
FwdItems == ItemsUpTo(NumFwdItems)


(***************************************************************************)
(* The world a handler works on: the Store tables and the gateway state it *)
(* reads and writes, and the log of its gateway calls.                     *)
(*   rec  pinned_messages     pin  chat_pins       last  last_messages     *)
(*   ex   the message ids that exist in the source channel the handler     *)
(*        reads: posts arrive and are deleted outside the bot's control,   *)
(*        so each handler starts from any content, ExistingItems           *)
(***************************************************************************)
ExistingItems == SUBSET Items

World(existing) ==
    [rec |-> pinned_messages, pin |-> chat_pins, last |-> last_messages,
     ex |-> existing, log |-> <<>>]

\* The world of a handler that does not read the source channel.
World0 == World({})

Call(op, d, m, res, c) == [op |-> op, d |-> d, m |-> m, res |-> res, c |-> c]

Logged(w, e) == [w EXCEPT !.log = Append(@, e)]

Max(S) == CHOOSE x \in S : \A y \in S : y <= x
Min(S) == CHOOSE x \in S : \A y \in S : x <= y

\* The message id the gateway gives the next message the bot sends to chat d: one
\* that names no message of d the model still tracks.
FreeIds(w, d) == MsgIds \ (w.pin[d] \cup {w.rec[d], test_pending[d]})

(***************************************************************************)
(* Repository: tables pinned_messages and last_messages.                   *)
(***************************************************************************)
\* What save_pinned_message would be with INSERT OR IGNORE: the row of a chat that
\* has one is kept.
save_pinned_message_or_ignore(w, d, m) ==
    { Logged([w EXCEPT !.rec[d] = IF @ = None THEN m ELSE @],
             Call("save", d, m, "ok", None)),
      Logged(w, Call("save", d, m, "err", None)) }

\* INSERT OR REPLACE INTO pinned_messages; an error of the Store is logged and
\* swallowed, the caller goes on as if the row were written.
save_pinned_message(w, d, m) ==
    { Logged([w EXCEPT !.rec[d] = m], Call("save", d, m, "ok", None)),
      Logged(w, Call("save", d, m, "err", None)) }

\* SELECT message_id FROM pinned_messages WHERE chat_id = ?: the values the call
\* can return, None also when the read fails (the error is logged and swallowed).
get_pinned_message(w, d) == {w.rec[d], None}

\* DELETE FROM pinned_messages WHERE chat_id = ?
delete_pinned_message(w, d) == [w EXCEPT !.rec[d] = None]

\* INSERT OR REPLACE INTO last_messages
save_last_message(w, ch, m) == [w EXCEPT !.last[ch] = m]

(***************************************************************************)
(* MessagingGateway (aiogram Bot).  Each operator gives the set of         *)
(* outcomes <<result, world after>> the call can have.                     *)
(***************************************************************************)
\* bot.forward_message(chat_id=d, from_chat_id=ch, message_id=m).  "notfound" is
\* the error class "message to forward not found"; the message may be deleted at
\* the source just before the call.
forward_message(w, ch, m, d) ==
    LET ok == IF m \in w.ex /\ FreeIds(w, d) # {}
              THEN LET c == Min(FreeIds(w, d)) IN
                   { [res |-> "ok", c |-> c,
                      w |-> Logged(w, Call("forward", d, m, "ok", c))] }
              ELSE {}
        gone == { [res |-> "notfound", c |-> None,
                   w |-> Logged([w EXCEPT !.ex = @ \ {m}],
                                Call("forward", d, m, "notfound", None))] }
        err == { [res |-> "err", c |-> None,
                  w |-> Logged(w, Call("forward", d, m, "err", None))] }
    IN  ok \cup gone \cup err

\* bot.unpin_chat_message(chat_id=d, message_id=m).  "notfound": the message was
\* deleted in the chat, so it is not pinned either; "err": any other error, the
\* message stays as it was.
unpin_chat_message(w, d, m) ==
    { [res |-> "ok", w |-> Logged([w EXCEPT !.pin[d] = @ \ {m}],
                                  Call("unpin", d, m, "ok", None))],
      [res |-> "notfound", w |-> Logged([w EXCEPT !.pin[d] = @ \ {m}],
                                        Call("unpin", d, m, "notfound", None))],
      [res |-> "err", w |-> Logged(w, Call("unpin", d, m, "err", None))] }

\* bot.pin_chat_message(chat_id=d, message_id=m): Telegram keeps the earlier pins.
pin_chat_message(w, d, m) ==
    { [res |-> "ok", w |-> Logged([w EXCEPT !.pin[d] = @ \cup {m}],
                                  Call("pin", d, m, "ok", None))],
      [res |-> "err", w |-> Logged(w, Call("pin", d, m, "err", None))] }


(***************************************************************************)
(* utils/message_utils.py                                                  *)
(***************************************************************************)
\* The id find_latest_message returns when V is the set of ids whose existence
\* probe (copy_message, then delete_message of the copy) succeeds.
FindLatestWith(V, last_saved_id) ==
    LET start_id == IF last_saved_id # None THEN last_saved_id + SearchMargin
                    ELSE DefaultStart
        \* range(start_id, start_id + max_check): the last hit is kept
        forward == {m \in V : start_id <= m /\ m < start_id + MaxCheck}
        \* range(search_start, max(1, search_start - max_check), -1): first hit, break
        low == IF start_id - MaxCheck > 1 THEN start_id - MaxCheck ELSE 1
        backward == {m \in V : low < m /\ m <= start_id}
    IN  IF forward # {} THEN Max(forward)
        ELSE IF backward # {} THEN Max(backward)
        ELSE None

\* find_latest_message as its two loops run.  The existence probe of msg_id is
\* copy_message into the channel itself, then delete_message of the copy (whose
\* errors are ignored): "ok" for the ids of found, unless the copy raises an
\* unexpected error, as it does for the ids of failing; "notfound" for the rest.
ProbeResult_failing_ok(found, failing, msg_id) ==
    IF msg_id \in found \cup failing THEN "ok" ELSE "notfound"

ProbeResult(found, failing, msg_id) ==
    IF msg_id \in failing THEN "err"
    ELSE IF msg_id \in found THEN "ok"
    ELSE "notfound"

\* for msg_id in range(start_id, start_id + max_check) (lines 40-80): valid_id is
\* overwritten by every hit.  The loop is followed from one id of found or failing
\* to the next; the probes of the ids in between raise "not found" and the loop
\* goes on.
RECURSIVE ForwardScan(_, _, _, _, _)
ForwardScan_first_hit(found, failing, msg_id, stop, valid_id) ==
    LET hits == {m \in found \ failing : msg_id <= m /\ m < stop}
    IN  IF hits = {} THEN valid_id ELSE Min(hits)

ForwardScan(found, failing, msg_id, stop, valid_id) ==
    LET ahead == {m \in found \cup failing : msg_id <= m /\ m < stop}
    IN  IF ahead = {} THEN valid_id
        ELSE LET next_id == Min(ahead)
             IN  ForwardScan(found, failing, next_id + 1, stop,
                             IF ProbeResult(found, failing, next_id) = "ok"
                             THEN next_id ELSE valid_id)

\* for msg_id in range(search_start, max(1, search_start - max_check), -1) (lines
\* 87-123): the first hit ends the loop.
RECURSIVE BackwardScan(_, _, _, _)
BackwardScan(found, failing, msg_id, stop) ==
    LET ahead == {m \in found \cup failing : stop < m /\ m <= msg_id}
    IN  IF ahead = {} THEN None
        ELSE LET next_id == Max(ahead)
             IN  IF ProbeResult(found, failing, next_id) = "ok" THEN next_id
                 ELSE BackwardScan(found, failing, next_id - 1, stop)

FindLatestScan(found, failing, last_saved_id) ==
    LET start_id == IF last_saved_id # None THEN last_saved_id + SearchMargin
                    ELSE DefaultStart
        valid_id == ForwardScan(found, failing, start_id, start_id + MaxCheck, None)
    IN  IF valid_id # None THEN valid_id
        ELSE BackwardScan(found, failing, start_id, Max({1, start_id - MaxCheck}))

\* The probe copies that are in the channel when find_latest_message returns, named
\* by the id probed.  copy_message puts a copy into the channel for every id whose
\* probe succeeds: each id of the forward window (the loop has no break), and in
\* the backward loop the one id that ends it.  delete_message(test_msg.message_id)
\* follows inside try / except: pass (lines 58-61, 103-106); undeletable is the set
\* of probed ids for whose copy that call raises, and the copy stays.
ProbeCopiesLeft(found, failing, undeletable, last_saved_id) ==
    LET start_id == IF last_saved_id # None THEN last_saved_id + SearchMargin
                    ELSE DefaultStart
        forward == {m \in found \ failing : start_id <= m /\ m < start_id + MaxCheck}
        valid_id == FindLatestScan(found, failing, last_saved_id)
        copied == IF forward # {} THEN forward
                  ELSE IF valid_id # None THEN {valid_id}
                  ELSE {}
    IN  copied \cap undeletable

\* A probe of an existing id can still fail with an unexpected error, which counts
\* as absence of that id: every subset of the existing ids may be what is seen.
find_latest_message(existing, last_saved_id) ==
    { FindLatestWith(V, last_saved_id) : V \in SUBSET existing }

(***************************************************************************)
(* BotContext.forward_and_pin_message                                      *)
(***************************************************************************)
Ret(w, ret) == [w |-> w, ret |-> ret]

\* What lines 350-386 would be if an error of the unpin other than "not found"
\* ended the work on the chat.
UnpinPrevThenPin_unpin_error_aborts(w, d, prev_pinned, c) ==
    LET afterUnpin == IF prev_pinned # None
                      THEN unpin_chat_message(w, d, prev_pinned)
                      ELSE {[res |-> "ok", w |-> w]}
    IN  UNION { IF u.res = "err" THEN {u.w}
                ELSE UNION { IF p.res = "ok" THEN save_pinned_message(p.w, d, c)
                             ELSE {p.w}
                             : p \in pin_chat_message(u.w, d, c) }
                : u \in afterUnpin }

\* Lines 350-386, after a successful forward to chat d of the copy c: unpin the
\* previous pinned message, pin the copy, save the record.
UnpinPrevThenPin(w, d, prev_pinned, c) ==
    LET afterUnpin == IF prev_pinned # None
                      THEN {o.w : o \in unpin_chat_message(w, d, prev_pinned)}
                      ELSE {w}
    IN  UNION { UNION { IF p.res = "ok" THEN save_pinned_message(p.w, d, c)
                        ELSE {p.w}
                        : p \in pin_chat_message(w1, d, c) }
                : w1 \in afterUnpin }

RECURSIVE ForwardLoop(_, _, _, _, _)
\* The loop over target_chats from position i on, `success` being the flag so far.
\* The set of <<world, returned value>> the call can end with.
ForwardLoop(w, channel_id, message_id, i, success) ==
    IF i > Len(target_chats) THEN {Ret(w, success)}
    ELSE
      LET chat_id == target_chats[i]
          OnForward(f) ==
            CASE f.res = "ok" ->
                   UNION { UNION { ForwardLoop(w2, channel_id, message_id, i + 1, TRUE)
                                   : w2 \in UnpinPrevThenPin(f.w, chat_id, prev_pinned,
                                                             f.c) }
                           : prev_pinned \in get_pinned_message(w, chat_id) }
              [] f.res = "notfound" ->
                   UNION { IF latest # None /\ latest # message_id
                           THEN ForwardLoop(save_last_message(f.w, channel_id, latest),
                                            channel_id, latest, 1, FALSE)
                           ELSE {Ret(f.w, FALSE)}
                           : latest \in find_latest_message(f.w.ex, message_id) }
              [] OTHER ->
                   ForwardLoop(f.w, channel_id, message_id, i + 1, success)
      IN  UNION { OnForward(f) : f \in forward_message(w, channel_id, message_id, chat_id) }

forward_and_pin_message(w, channel_id, message_id) ==
    IF Len(target_chats) = 0 THEN {Ret(w, FALSE)}
    ELSE ForwardLoop(w, channel_id, message_id, 1, FALSE)

(***************************************************************************)
(* RunningState._unpin_all_messages                                        *)
(***************************************************************************)
RECURSIVE UnpinLoop(_, _)
UnpinLoop(w, i) ==
    IF i > Len(target_chats) THEN {w}
    ELSE
      LET chat_id == target_chats[i]
          pinned_message_id == w.rec[chat_id]
      IN  IF pinned_message_id = None THEN UnpinLoop(w, i + 1)
          ELSE UNION { UnpinLoop(IF u.res \in {"ok", "notfound"}
                                 THEN delete_pinned_message(u.w, chat_id)
                                 ELSE u.w, i + 1)
                       : u \in unpin_chat_message(w, chat_id, pinned_message_id) }

unpin_all_messages(w) == UnpinLoop(w, 1)


(***************************************************************************)
(* The schedule: "%H:%M" strings are <<hours, minutes>>; a slot is a row   *)
(* of table schedule.                                                      *)
(***************************************************************************)
Slot(c, s, e) == [channel_id |-> c, start_time |-> s, end_time |-> e]

\* f"{channel_id}_{start_time}_{end_time}"
SlotId(sl) == <<sl.channel_id, sl.start_time, sl.end_time>>

NoChannel == ""
NoSlot == <<>>
NoDate == -1

\* The times of day the clock of the model passes through, in order.
ClockPoints == << <<1, 0>>, <<10, 0>>, <<12, 30>>, <<23, 0>> >>

\* The schedules the model starts from, each ordered by start_time as get_schedules
\* returns it: two disjoint slots, one of them across midnight; two overlapping
\* slots of different channels.
ScheduleChoices ==
    { << Slot("A", <<9, 0>>, <<12, 0>>), Slot("B", <<22, 0>>, <<2, 0>>) >>,
      << Slot("A", <<9, 0>>, <<12, 0>>), Slot("B", <<9, 30>>, <<13, 0>>) >> }

time_to_minutes(time_str) == time_str[1] * 60 + time_str[2]

\* What _is_time_in_range would be without the branch for a slot that crosses
\* midnight.
is_time_in_range_same_day(current_time, start_time, end_time) ==
    /\ time_to_minutes(start_time) <= time_to_minutes(current_time)
    /\ time_to_minutes(current_time) < time_to_minutes(end_time)

\* RunningState._is_time_in_range
is_time_in_range(current_time, start_time, end_time) ==
    LET current_minutes == time_to_minutes(current_time)
        start_minutes == time_to_minutes(start_time)
        end_minutes == time_to_minutes(end_time)
    IN  IF end_minutes < start_minutes
        THEN current_minutes >= start_minutes \/ current_minutes < end_minutes
        ELSE start_minutes <= current_minutes /\ current_minutes < end_minutes

\* What _get_active_channel_info would be if the loop over the rows did not return
\* at the first row that contains current_time: the last such row wins.
get_active_channel_info_last_match(rows, current_time) ==
    LET hits == {i \in 1..Len(rows) :
                    is_time_in_range(current_time, rows[i].start_time, rows[i].end_time)}
    IN  IF hits = {} THEN [found |-> FALSE, channel_id |-> NoChannel, slot_id |-> NoSlot]
        ELSE [found |-> TRUE, channel_id |-> rows[Max(hits)].channel_id,
              slot_id |-> SlotId(rows[Max(hits)])]

\* RunningState._get_active_channel_info over the rows get_schedules returned (no
\* rows when the Store read failed): the first row that contains current_time.
get_active_channel_info(rows, current_time) ==
    LET hits == {i \in 1..Len(rows) :
                    is_time_in_range(current_time, rows[i].start_time, rows[i].end_time)}
    IN  IF hits = {} THEN [found |-> FALSE, channel_id |-> NoChannel, slot_id |-> NoSlot]
        ELSE [found |-> TRUE, channel_id |-> rows[Min(hits)].channel_id,
              slot_id |-> SlotId(rows[Min(hits)])]

SlotIds == {SlotId(schedules[i]) : i \in 1..Len(schedules)}

\* The slots of the schedule that contain the time of day ClockPoints[c].
ActiveAt(c) == {SlotId(schedules[i]) : i \in {j \in 1..Len(schedules) :
                  is_time_in_range(ClockPoints[c], schedules[j].start_time,
                                   schedules[j].end_time)}}

(***************************************************************************)
(* What a handler reports: the handler, its returned value, and for a tick *)
(* what it went through.                                                   *)
(*   ops       the kinds of gateway call the handler made                  *)
(*   rollover  the tick saw a new date                                     *)
(*   roll_ok   the chats whose unpin in the rollover sweep returned        *)
(*             success or "not found"                                      *)
(*   roll_rec  pinned_messages after the rollover sweep                    *)
(*   slot      the slot resolved                                           *)
(*   invoked   forward_and_pin_message was called                          *)
(*   reads_ok  the Store reads of the handler succeeded                    *)
(***************************************************************************)
Report(op, ret) ==
    [op |-> op, ret |-> ret, ops |-> {}, rollover |-> FALSE, roll_ok |-> {},
     roll_rec |-> [d \in Dests |-> None], slot |-> NoSlot, invoked |-> FALSE,
     reads_ok |-> TRUE]

GatewayOps == {"forward", "unpin", "pin"}
OpsOf(l) == {l[i].op : i \in 1..Len(l)} \cap GatewayOps

\* The handler ends in world w: the tables and the gateway take its values.
Commit(w, rep) ==
    /\ pinned_messages' = w.rec
    /\ chat_pins' = w.pin
    /\ last_messages' = w.last
    /\ report' = [rep EXCEPT !.ops = OpsOf(w.log)]


(***************************************************************************)
(* Spec: the engine, one action per handler.                               *)
(***************************************************************************)
Idle == 0

NoStop == [on |-> Idle, pc |-> "none"]

\* Nothing applied yet, an empty cache.
NoProbe == [fn |-> "none"]

NoEntry == -1

\* A coroutine that is not inside get_connection.
Outside == [pc |-> "out", conn |-> 0]

\* No connection opened yet (_active_connections = []), nobody in get_connection.
PoolInit ==
    /\ db_connections = <<>>
    /\ db_acquirers = [a \in 1..NumAcquirers |-> Outside]

AuxInit ==
    /\ probe = NoProbe
    /\ chat_cache = <<>>
    /\ cache_now = 1
    /\ cache_pending = <<>>
    /\ cache_report = [op |-> "init"]
    /\ cache_observers = <<>>
    /\ PoolInit

NoCall ==
    [pc |-> "idle", channel_id |-> NoChannel, message_id |-> None, i |-> 0,
     success |-> FALSE, ret |-> FALSE, gone |-> {}, tried |-> {},
     copies |-> [d \in Dests |-> 0], copy |-> [d \in Dests |-> None],
     saved |-> [d \in Dests |-> None], swept |-> FALSE,
     stale |-> [d \in Dests |-> {}]]

Init ==
    /\ state = "Idle"
    /\ last_check_date = NoDate
    /\ processed_slots = {}
    /\ current_active_channel = NoChannel
    /\ current_pinned_message = None
    /\ day = 0
    /\ clk \in 1..Len(ClockPoints)
    /\ schedules \in ScheduleChoices
    /\ last_messages = [c \in Channels |-> None]
    /\ target_chats = [i \in 1..EngineDests |-> i]
    /\ pinned_messages = [d \in Dests |-> None]
    /\ chat_pins = [d \in Dests |-> {}]
    /\ test_pending = [d \in Dests |-> None]
    /\ call = NoCall
    /\ log = <<>>
    /\ report = Report("init", FALSE)
    /\ invoked_today = {}
    /\ skipped_today = {}
    /\ succeeded_session = {}
    /\ succeeded_activation = {}
    /\ ctx_state = Idle
    /\ task = <<>>
    /\ stop_calls = [k \in 1..MaxStops |-> NoStop]
    /\ next_instance = 1
    /\ AuxInit

\* IdleState.start: context.state = RunningState(context), whose __init__ empties
\* the fields and creates the tick-loop task.  RunningState.start: pass.
Start ==
    /\ IF state = "Idle"
       THEN /\ state' = "Running"
            /\ last_check_date' = NoDate
            /\ processed_slots' = {}
            /\ current_active_channel' = NoChannel
            /\ current_pinned_message' = None
            /\ succeeded_session' = {}
       ELSE UNCHANGED <<state, last_check_date, processed_slots,
                        current_active_channel, current_pinned_message,
                        succeeded_session>>
    /\ Commit(World0, Report("start", FALSE))
    /\ UNCHANGED <<day, clk, schedules, target_chats, test_pending, invoked_today,
                   skipped_today, succeeded_activation>>

\* RunningState.stop: cancel the tick loop, unpin everything, context.state =
\* IdleState(context).  IdleState.stop: pass.
Stop ==
    /\ IF state = "Running"
       THEN /\ state' = "Idle"
            /\ succeeded_activation' = {}
            /\ \E w \in unpin_all_messages(World0) : Commit(w, Report("stop", FALSE))
       ELSE /\ UNCHANGED <<state, succeeded_activation>>
            /\ Commit(World0, Report("stop", FALSE))
    /\ UNCHANGED <<last_check_date, processed_slots, current_active_channel,
                   current_pinned_message, day, clk, schedules, target_chats, test_pending,
                   invoked_today, skipped_today, succeeded_session>>

\* What handle_message would be if RunningState forwarded every channel post at
\* once, as a forwarder without a schedule does.
handle_message_forwarding(channel_id, message_id) ==
    /\ IF state = "Running"
       THEN \E ex \in ExistingItems :
            \E r \in forward_and_pin_message(
                        save_last_message(World(ex), channel_id, message_id),
                        channel_id, message_id) :
               Commit(r.w, Report("handle_message", r.ret))
       ELSE Commit(save_last_message(World0, channel_id, message_id),
                   Report("handle_message", FALSE))
    /\ UNCHANGED <<state, last_check_date, processed_slots, current_active_channel,
                   current_pinned_message, day, clk, schedules, target_chats, test_pending,
                   invoked_today, skipped_today, succeeded_session, succeeded_activation>>

\* IdleState.handle_message and RunningState.handle_message, reached from
\* handle_channel_post for a post message_id of the source channel channel_id.
handle_message(channel_id, message_id) ==
    /\ Commit(save_last_message(World0, channel_id, message_id),
              Report("handle_message", FALSE))
    /\ UNCHANGED <<state, last_check_date, processed_slots, current_active_channel,
                   current_pinned_message, day, clk, schedules, target_chats, test_pending,
                   invoked_today, skipped_today, succeeded_session, succeeded_activation>>

\* What the check of line 315 would be if rotate_now ran in every state.
IsRunningState_any == TRUE

\* isinstance(self.state, RunningState)
IsRunningState == state = "Running"

\* BotContext.rotate_now
rotate_now ==
    /\ \E sched_ok, last_ok \in BOOLEAN :
         LET info == get_active_channel_info(IF sched_ok THEN schedules ELSE <<>>,
                                             ClockPoints[clk])
             message_id == IF last_ok THEN last_messages[info.channel_id] ELSE None
             rep == [Report("rotate_now", FALSE) EXCEPT
                       !.slot = info.slot_id, !.reads_ok = sched_ok /\ last_ok]
         IN  IF ~IsRunningState THEN Commit(World0, Report("rotate_now", FALSE))
             ELSE IF info.found /\ message_id # None
             THEN \E ex \in ExistingItems :
                  \E r \in forward_and_pin_message(World(ex), info.channel_id,
                                                   message_id) :
                     Commit(r.w, [rep EXCEPT !.ret = r.ret, !.invoked = TRUE])
             ELSE Commit(World0, rep)
    /\ UNCHANGED <<state, last_check_date, processed_slots, current_active_channel,
                   current_pinned_message, day, clk, schedules, target_chats, test_pending,
                   invoked_today, skipped_today, succeeded_session, succeeded_activation>>


\* What the tick would do without line 120: the slot is never marked.
MarkProcessed_never(processed, slot_id) == processed

\* self._processed_slots.add(slot_id)
MarkProcessed(processed, slot_id) == processed \cup {slot_id}

\* What the day rollover would leave without self._processed_slots.clear()
ClearedSlots_kept == processed_slots

\* The day-rollover reset of lines 87-90: self._processed_slots.clear()
ClearedSlots == {}

\* What the test of line 132 would be if the end of a slot were never noticed.
SlotEnded_never(active_channel) == FALSE

\* if self._current_active_channel: (line 132) a channel was active and no slot
\* contains the current time any more.
SlotEnded(active_channel) == active_channel # NoChannel

\* One iteration of the loop of RunningState._schedule_check (lines 79-141).
\* sched_ok, last_ok: whether the Store reads get_schedules and get_last_message
\* succeed (a failed read returns no rows / None).
schedule_check ==
    /\ state = "Running"
    /\ \E sched_ok, last_ok \in BOOLEAN :
       LET rollover == last_check_date # day
       IN
       \E ex \in ExistingItems :
       \E w1 \in (IF rollover THEN unpin_all_messages(World(ex)) ELSE {World(ex)}) :
       LET processed1 == IF rollover THEN ClearedSlots ELSE processed_slots
           active1 == IF rollover THEN NoChannel ELSE current_active_channel
           pinned1 == IF rollover THEN None ELSE current_pinned_message
           info == get_active_channel_info(IF sched_ok THEN schedules ELSE <<>>,
                                           ClockPoints[clk])
           channel_id == info.channel_id
           slot_id == info.slot_id
           rep == [Report("tick", FALSE) EXCEPT
                     !.rollover = rollover, !.roll_rec = w1.rec,
                     !.roll_ok = {w1.log[i].d : i \in {j \in 1..Len(w1.log) :
                                     w1.log[j].res \in {"ok", "notfound"}}},
                     !.slot = slot_id,
                     !.reads_ok = sched_ok /\ last_ok]
       IN
       /\ last_check_date' = day
       /\ IF info.found
          THEN IF slot_id \notin processed1
               THEN \E w2 \in unpin_all_messages(w1) :
                    LET latest_message_id == IF last_ok THEN w2.last[channel_id]
                                             ELSE None
                    IN  IF latest_message_id # None
                        THEN \E r \in forward_and_pin_message(w2, channel_id,
                                                              latest_message_id) :
                             /\ Commit(r.w, [rep EXCEPT !.ret = r.ret,
                                                        !.invoked = TRUE])
                             /\ invoked_today' = invoked_today \cup {slot_id}
                             /\ UNCHANGED skipped_today
                             /\ IF r.ret
                                THEN /\ current_active_channel' = channel_id
                                     /\ current_pinned_message' = latest_message_id
                                     /\ processed_slots' = MarkProcessed(processed1, slot_id)
                                     /\ succeeded_session' =
                                          succeeded_session \cup {slot_id}
                                     /\ succeeded_activation' =
                                          succeeded_activation \cup {slot_id}
                                ELSE /\ current_active_channel' = active1
                                     /\ current_pinned_message' = pinned1
                                     /\ processed_slots' = processed1
                                     /\ UNCHANGED <<succeeded_session,
                                                    succeeded_activation>>
                        ELSE /\ Commit(w2, rep)
                             /\ processed_slots' = MarkProcessed(processed1, slot_id)
                             /\ skipped_today' = skipped_today \cup {slot_id}
                             /\ current_active_channel' = active1
                             /\ current_pinned_message' = pinned1
                             /\ UNCHANGED <<invoked_today, succeeded_session,
                                            succeeded_activation>>
               ELSE /\ Commit(w1, rep)
                    /\ processed_slots' = processed1
                    /\ current_active_channel' = active1
                    /\ current_pinned_message' = pinned1
                    /\ UNCHANGED <<invoked_today, skipped_today, succeeded_session,
                                   succeeded_activation>>
          ELSE /\ IF SlotEnded(active1)
                  THEN \E w2 \in unpin_all_messages(w1) : Commit(w2, rep)
                  ELSE Commit(w1, rep)
               /\ processed_slots' = processed1
               /\ current_active_channel' = NoChannel
               /\ current_pinned_message' = None
               /\ UNCHANGED <<invoked_today, skipped_today, succeeded_session, succeeded_activation>>
    /\ UNCHANGED <<state, day, clk, schedules, target_chats, test_pending>>

\* ForwarderBot.test_pin_handler for the chat chat_id, up to its asyncio.sleep(5):
\* send the test message, pin it, save its id as the chat's pinned message.  A chat
\* where the bot may not pin, a failed send and a failed pin end the handler.
test_pin_handler(chat_id) ==
    /\ test_pending[chat_id] = None
    /\ FreeIds(World0, chat_id) # {}
    /\ LET test_message == Min(FreeIds(World0, chat_id))
       IN  \/ /\ Commit(World0, Report("test_pin", FALSE))
              /\ UNCHANGED test_pending
           \/ \E p \in pin_chat_message(World0, chat_id, test_message) :
                IF p.res = "ok"
                THEN /\ \E w \in save_pinned_message(p.w, chat_id, test_message) :
                          Commit(w, Report("test_pin", TRUE))
                     /\ test_pending' = [test_pending EXCEPT ![chat_id] = test_message]
                ELSE /\ Commit(p.w, Report("test_pin", FALSE))
                     /\ UNCHANGED test_pending

\* test_pin_handler after its asyncio.sleep(5): unpin the test message; an error of
\* the unpin is logged and swallowed.
test_pin_finish(chat_id) ==
    /\ test_pending[chat_id] # None
    /\ \E u \in unpin_chat_message(World0, chat_id, test_pending[chat_id]) :
          Commit(u.w, Report("test_pin_finish", FALSE))
    /\ test_pending' = [test_pending EXCEPT ![chat_id] = None]

\* The wall clock moves to the next time of day, over midnight after the last one.
\* A slot that does not contain the new time is no longer in its activation.
AdvanceClock ==
    /\ clk < Len(ClockPoints) \/ day < MaxDay
    /\ LET next == IF clk < Len(ClockPoints) THEN clk + 1 ELSE 1
       IN  /\ clk' = next
           /\ day' = IF clk < Len(ClockPoints) THEN day ELSE day + 1
           /\ succeeded_activation' = succeeded_activation \cap ActiveAt(next)
           /\ IF clk < Len(ClockPoints)
              THEN UNCHANGED <<invoked_today, skipped_today, succeeded_session>>
              ELSE /\ invoked_today' = {}
                   /\ skipped_today' = {}
                   /\ succeeded_session' = {}
    /\ Commit(World0, Report("clock", FALSE))
    /\ UNCHANGED <<state, last_check_date, processed_slots, current_active_channel,
                   current_pinned_message, schedules, target_chats, test_pending>>

Next ==
    \/ (Start /\ UNCHANGED <<call, log, taskVars, auxVars>>)
    \/ (Stop /\ UNCHANGED <<call, log, taskVars, auxVars>>)
    \/ (schedule_check /\ UNCHANGED <<call, log, taskVars, auxVars>>)
    \/ (rotate_now /\ UNCHANGED <<call, log, taskVars, auxVars>>)
    \/ (\E c \in Channels, m \in Items : handle_message(c, m)
           /\ UNCHANGED <<call, log, taskVars, auxVars>>)
    \/ (AdvanceClock /\ UNCHANGED <<call, log, taskVars, auxVars>>)

Spec == Init /\ [][Next]_vars

(***************************************************************************)
(* SpecLive: the engine of Spec while it runs, with the fairness that a    *)
(* retry needs.  The tick loop wakes every 60 seconds as long as the       *)
(* engine runs: the tick is weakly fair.  The gateway is not down for      *)
(* ever: a tick whose publish succeeds is strongly fair, it happens if it  *)
(* is possible again and again.  The clock is under no obligation: a slot  *)
(* lasts as long as it takes.                                              *)
(***************************************************************************)
\* The schedule of SpecLive: slot A by day, slot B across midnight.
DaySchedule ==
    << Slot("A", <<9, 0>>, <<12, 0>>), Slot("B", <<22, 0>>, <<2, 0>>) >>

\* The bot comes up at 10:00, inside slot A.
InitLive ==
    /\ Init
    /\ schedules = DaySchedule
    /\ clk = 2

\* One iteration of the tick loop.
LiveTick == schedule_check /\ UNCHANGED <<call, log, taskVars, auxVars>>

\* An iteration of the tick loop whose forward_and_pin_message returns True.
LivePublish == LiveTick /\ report'.invoked /\ report'.ret

NextLive ==
    \/ (Start /\ UNCHANGED <<call, log, taskVars, auxVars>>)
    \/ LiveTick
    \/ (\E c \in Channels, m \in Items : handle_message(c, m)
           /\ UNCHANGED <<call, log, taskVars, auxVars>>)
    \/ (AdvanceClock /\ UNCHANGED <<call, log, taskVars, auxVars>>)

SpecLive ==
    InitLive /\ [][NextLive]_vars /\ WF_vars(LiveTick) /\ SF_vars(LivePublish)


(***************************************************************************)
(* SpecFwd: the handlers that pin and unpin, run one after another on the  *)
(* target chats: forward_and_pin_message (as the tick and rotate_now call  *)
(* it) one iteration of its loop per step, the unpin-all sweep (as stop()  *)
(* and the tick call it) and the manual test pin.                          *)
(*                                                                         *)
(* call: the position of the forward_and_pin_message call in progress,     *)
(*   pc          "idle" | "loop" (before iteration i) | "done"             *)
(*   message_id  the id being forwarded (the corrected id after a retry)   *)
(*   success     the local flag `success`;  ret  the returned value        *)
(*   gone        the ids a forward of this call reported "not found"       *)
(* and what the call did so far, kept for the properties,                  *)
(*   tried       the ids it attempted to forward                           *)
(*   copies[d]   how many copies it forwarded to chat d (2: two or more)   *)
(*   copy[d]     the last copy it forwarded to chat d                      *)
(*   saved[d]    the last copy it pinned in d and saved as d's record      *)
(*   swept       SpecSlot: the call follows the sweep of a slot activation *)
(*               in which every unpin call returned success or "not found" *)
(*   stale[d]    SpecSlot: the messages still pinned in d after that sweep *)
(* log: the gateway and Store calls of the last loop iteration.            *)
(***************************************************************************)
InitFwd ==
    /\ state = "Running"
    /\ last_check_date = NoDate
    /\ processed_slots = {}
    /\ current_active_channel = NoChannel
    /\ current_pinned_message = None
    /\ day = 0
    /\ clk = 1
    /\ schedules = <<>>
    /\ last_messages = [c \in Channels |-> None]
    /\ target_chats = [i \in 1..NumDests |-> i]
    /\ pinned_messages = [d \in Dests |-> None]
    /\ chat_pins = [d \in Dests |-> {}]
    /\ test_pending = [d \in Dests |-> None]
    /\ call = NoCall
    /\ log = <<>>
    /\ report = Report("init", FALSE)
    /\ invoked_today = {}
    /\ skipped_today = {}
    /\ succeeded_session = {}
    /\ succeeded_activation = {}
    /\ ctx_state = Idle
    /\ task = <<>>
    /\ stop_calls = [k \in 1..MaxStops |-> NoStop]
    /\ next_instance = 1
    /\ AuxInit

fwdFrame == <<state, last_check_date, processed_slots, current_active_channel,
              current_pinned_message, day, clk, schedules, target_chats,
              invoked_today, skipped_today, succeeded_session, succeeded_activation, taskVars,
              auxVars>>

\* The contents the source channel can have while the call runs: an id once
\* reported "not found" does not come back.
ExistingNow == SUBSET (FwdItems \ call.gone)

\* forward_and_pin_message(channel_id, message_id) is called (lines 327-333).
FwdBegin(channel_id, message_id) ==
    /\ call.pc = "idle"
    /\ call' = IF Len(target_chats) = 0
               THEN [NoCall EXCEPT !.pc = "done", !.channel_id = channel_id,
                                   !.message_id = message_id]
               ELSE [NoCall EXCEPT !.pc = "loop", !.channel_id = channel_id,
                                   !.message_id = message_id, !.i = 1]
    /\ log' = <<>>
    /\ Commit(World0, Report("fwd_begin", FALSE))
    /\ UNCHANGED <<fwdFrame, test_pending>>

\* One iteration of the loop over target_chats (lines 336-418) for chat_id =
\* target_chats[call.i]: forward; then either unpin the previous pin, pin the copy
\* and save it, or on "not found" search the channel and start over with the id
\* found (the recursive call of line 407, whose result is returned as it is), or go
\* on to the next chat.
FwdChat ==
    /\ call.pc = "loop" /\ call.i <= Len(target_chats)
    /\ LET chat_id == target_chats[call.i]
           m == call.message_id
           Tried(c) == [c EXCEPT !.tried = @ \cup {m}]
       IN
       \E ex \in ExistingNow :
       \E prev_pinned \in get_pinned_message(World(ex), chat_id) :
       \E f \in forward_message(World(ex), call.channel_id, m, chat_id) :
         CASE f.res = "ok" ->
                \E w \in UnpinPrevThenPin(f.w, chat_id, prev_pinned, f.c) :
                   /\ Commit(w, Report("fwd_chat", FALSE))
                   /\ log' = w.log
                   /\ call' = [Tried(call) EXCEPT
                                 !.i = @ + 1, !.success = TRUE,
                                 !.copies[chat_id] = IF @ < 2 THEN @ + 1 ELSE 2,
                                 !.copy[chat_id] = f.c,
                                 !.saved[chat_id] =
                                    IF w.log[Len(w.log)].op = "save"
                                       /\ w.log[Len(w.log)].res = "ok"
                                    THEN f.c ELSE @]
           [] f.res = "notfound" ->
                \E latest_message_id \in find_latest_message(f.w.ex, m) :
                   IF latest_message_id # None /\ latest_message_id # m
                   THEN /\ Commit(save_last_message(f.w, call.channel_id,
                                                    latest_message_id),
                                  Report("fwd_chat", FALSE))
                        /\ log' = f.w.log
                        /\ call' = [Tried(call) EXCEPT
                                      !.gone = @ \cup {m},
                                      !.message_id = latest_message_id,
                                      !.i = 1, !.success = FALSE]
                   ELSE /\ Commit(f.w, Report("fwd_chat", FALSE))
                        /\ log' = f.w.log
                        /\ call' = [Tried(call) EXCEPT
                                      !.gone = @ \cup {m}, !.pc = "done",
                                      !.ret = FALSE]
           [] OTHER ->
                /\ Commit(f.w, Report("fwd_chat", FALSE))
                /\ log' = f.w.log
                /\ call' = [Tried(call) EXCEPT !.i = @ + 1]
    /\ UNCHANGED <<fwdFrame, test_pending>>

\* return success (line 420)
FwdReturn ==
    /\ call.pc = "loop" /\ call.i > Len(target_chats)
    /\ call' = [call EXCEPT !.pc = "done", !.ret = call.success]
    /\ log' = <<>>
    /\ Commit(World0, Report("fwd_return", call.success))
    /\ UNCHANGED <<fwdFrame, test_pending>>

\* The caller has the returned value; the next handler can run.
FwdEnd ==
    /\ call.pc = "done"
    /\ call' = NoCall
    /\ log' = <<>>
    /\ Commit(World0, Report("fwd_end", call.ret))
    /\ UNCHANGED <<fwdFrame, test_pending>>

\* RunningState._unpin_all_messages
Sweep ==
    /\ call.pc = "idle"
    /\ \E w \in unpin_all_messages(World0) : Commit(w, Report("sweep", FALSE))
    /\ UNCHANGED <<fwdFrame, test_pending, call, log>>

NextFwd ==
    \/ \E m \in FwdItems : FwdBegin("A", m)
    \/ FwdChat
    \/ FwdReturn
    \/ FwdEnd
    \/ Sweep
    \/ (\E d \in Dests : call.pc = "idle" /\ test_pin_handler(d)
           /\ UNCHANGED <<fwdFrame, call, log>>)
    \/ (\E d \in Dests : call.pc = "idle" /\ test_pin_finish(d)
           /\ UNCHANGED <<fwdFrame, call, log>>)

SpecFwd == InitFwd /\ [][NextFwd]_vars

(***************************************************************************)
(* SpecSlot: the activation of a slot of channel A by a tick (lines        *)
(* 103-124) on the records and pins that the publishes of another          *)
(* channel's slot left in the target chats: a record with or without its   *)
(* pin, pins without a record (the save failed, or the record was replaced *)
(* while the unpin failed).  The sweep and the entry into                  *)
(* forward_and_pin_message are one step, the loop goes on as in SpecFwd.   *)
(***************************************************************************)
InitSlot ==
    /\ state = "Running"
    /\ last_check_date = 0
    /\ processed_slots = {}
    /\ current_active_channel = NoChannel
    /\ current_pinned_message = None
    /\ day = 0
    /\ clk = 1
    /\ schedules = <<>>
    /\ last_messages = [c \in Channels |-> None]
    /\ target_chats = [i \in 1..NumDests |-> i]
    /\ pinned_messages \in [Dests -> MsgIds \cup {None}]
    /\ chat_pins \in [Dests -> SUBSET MsgIds]
    /\ test_pending = [d \in Dests |-> None]
    /\ call = NoCall
    /\ log = <<>>
    /\ report = Report("init", FALSE)
    /\ invoked_today = {}
    /\ skipped_today = {}
    /\ succeeded_session = {}
    /\ succeeded_activation = {}
    /\ ctx_state = Idle
    /\ task = <<>>
    /\ stop_calls = [k \in 1..MaxStops |-> NoStop]
    /\ next_instance = 1
    /\ AuxInit

\* Lines 103-114 of the tick for a slot not in _processed_slots whose channel has
\* the stored last item message_id: await self._unpin_all_messages(), then the
\* call of forward_and_pin_message up to its loop.
ActivateBegin(channel_id, message_id) ==
    /\ call.pc = "idle" /\ report.op = "init"
    /\ \E w \in unpin_all_messages(World0) :
         /\ Commit(w, Report("activate", FALSE))
         /\ log' = w.log
         /\ call' = [NoCall EXCEPT
                       !.pc = "loop", !.channel_id = channel_id,
                       !.message_id = message_id, !.i = 1,
                       !.swept = \A k \in 1..Len(w.log) :
                                    w.log[k].op = "unpin"
                                       => w.log[k].res \in {"ok", "notfound"},
                       !.stale = w.pin]
    /\ UNCHANGED <<fwdFrame, test_pending>>

NextSlot ==
    \/ \E m \in FwdItems : ActivateBegin("A", m)
    \/ FwdChat
    \/ FwdReturn
    \/ FwdEnd

SpecSlot == InitSlot /\ [][NextSlot]_vars

(***************************************************************************)
(* SpecTask: the asyncio task of the schedule loop and the calls that      *)
(* create and cancel it, one step per await.                               *)
(*                                                                         *)
(* ctx_state      BotContext.state: Idle, or the RunningState in place,    *)
(*                named by the order of creation 1, 2, ..                  *)
(* task[r]        the task RunningState r holds in _schedule_task:         *)
(*   pc           "new"       created, not run yet                         *)
(*                "body"      inside the loop body (lines 79-138)          *)
(*                "sleep"     at asyncio.sleep(60)                         *)
(*                "backoff"   at asyncio.sleep(10) of the except handler   *)
(*                "done"      returned;  "cancelled"  ended by cancel      *)
(*   cancel       cancel() was requested and not delivered yet             *)
(*   stopped      stop() was called on r                                   *)
(*   raised       the loop body raised                                     *)
(* stop_calls[k]  a stop() call in progress: the RunningState it runs on   *)
(*                and where it is: "await" the task, "sweep" (before the   *)
(*                unpin-all sweep), "notify" (the sweep done, the notices  *)
(*                to the admins and the state change to come)              *)
(* The pinned-message table starts with the rows an earlier run of the bot *)
(* left in it; the loop body is not looked into here.                      *)
(***************************************************************************)
NewTask == [pc |-> "new", cancel |-> FALSE, stopped |-> FALSE, raised |-> FALSE]

\* task.done()
Done(t) == t.pc \in {"done", "cancelled"}

InitTask ==
    /\ state = "Idle"
    /\ last_check_date = NoDate
    /\ processed_slots = {}
    /\ current_active_channel = NoChannel
    /\ current_pinned_message = None
    /\ day = 0
    /\ clk = 1
    /\ schedules = <<>>
    /\ last_messages = [c \in Channels |-> None]
    /\ target_chats = [i \in 1..EngineDests |-> i]
    /\ pinned_messages \in [Dests -> MsgIds \cup {None}]
    /\ \A d \in Dests : d > EngineDests => pinned_messages[d] = None
    /\ chat_pins = [d \in Dests |-> {pinned_messages[d]} \ {None}]
    /\ test_pending = [d \in Dests |-> None]
    /\ call = NoCall
    /\ log = <<>>
    /\ report = Report("init", FALSE)
    /\ invoked_today = {}
    /\ skipped_today = {}
    /\ succeeded_session = {}
    /\ succeeded_activation = {}
    /\ ctx_state = Idle
    /\ task = <<>>
    /\ stop_calls = [k \in 1..MaxStops |-> NoStop]
    /\ next_instance = 1
    /\ AuxInit

\* RunningState._start_schedule_task, on the task t the RunningState holds (NoTask:
\* none yet): a new task replaces it only if there is none or it is done.
NoTask == [pc |-> "none", cancel |-> FALSE, stopped |-> FALSE, raised |-> FALSE]

start_schedule_task(t) ==
    IF t.pc = "none" \/ Done(t) THEN [NewTask EXCEPT !.stopped = t.stopped] ELSE t

\* toggle_forwarding with BotContext.state an IdleState: IdleState.start, which
\* puts a new RunningState in place; RunningState.__init__ starts its task.
ToggleStart ==
    /\ ctx_state = Idle
    /\ next_instance <= MaxInst
    /\ ctx_state' = next_instance
    /\ task' = Append(task, start_schedule_task(NoTask))
    /\ next_instance' = next_instance + 1
    /\ UNCHANGED <<engineVars, auxVars, stop_calls>>

\* What RunningState.stop would be without its await self._schedule_task: the
\* sweep follows the cancel request at once.
ToggleStop_no_await(k) ==
    /\ ctx_state # Idle
    /\ stop_calls[k] = NoStop
    /\ \A j \in 1..(k - 1) : stop_calls[j] # NoStop
    /\ LET r == ctx_state IN
       /\ task' = [task EXCEPT ![r].cancel = ~Done(task[r]), ![r].stopped = TRUE]
       /\ stop_calls' = [stop_calls EXCEPT ![k] = [on |-> r, pc |-> "sweep"]]
    /\ UNCHANGED <<engineVars, auxVars, ctx_state, next_instance>>

\* toggle_forwarding with BotContext.state a RunningState: RunningState.stop up to
\* its first await (lines 254-257).
ToggleStop(k) ==
    /\ ctx_state # Idle
    /\ stop_calls[k] = NoStop
    /\ \A j \in 1..(k - 1) : stop_calls[j] # NoStop
    /\ LET r == ctx_state IN
       IF ~Done(task[r])
       THEN /\ task' = [task EXCEPT ![r].cancel = TRUE, ![r].stopped = TRUE]
            /\ stop_calls' = [stop_calls EXCEPT ![k] = [on |-> r, pc |-> "await"]]
       ELSE /\ task' = [task EXCEPT ![r].stopped = TRUE]
            /\ stop_calls' = [stop_calls EXCEPT ![k] = [on |-> r, pc |-> "sweep"]]
    /\ UNCHANGED <<engineVars, auxVars, ctx_state, next_instance>>

\* await self._schedule_task returns (or raises CancelledError, which stop() passes
\* over) once the task is done.
StopAwaited(k) ==
    /\ stop_calls[k].pc = "await"
    /\ Done(task[stop_calls[k].on])
    /\ stop_calls' = [stop_calls EXCEPT ![k].pc = "sweep"]
    /\ UNCHANGED <<engineVars, auxVars, ctx_state, task, next_instance>>

\* The variables of the engine that no step of SpecTask changes.
taskFrame == <<state, last_check_date, processed_slots, current_active_channel,
               current_pinned_message, day, clk, schedules, target_chats,
               test_pending, call, log, invoked_today, skipped_today, succeeded_session,
               succeeded_activation>>

\* await self._unpin_all_messages() of RunningState.stop (line 263).  The report
\* keeps the chats whose unpin returned success or "not found" (roll_ok) and the
\* records the sweep left (roll_rec).
StopSweep(k) ==
    /\ stop_calls[k].pc = "sweep"
    /\ \E w \in unpin_all_messages(World0) :
          Commit(w, [Report("stop_sweep", FALSE) EXCEPT
                       !.roll_rec = w.rec,
                       !.roll_ok = {w.log[i].d : i \in {j \in 1..Len(w.log) :
                                       w.log[j].res \in {"ok", "notfound"}}}])
    /\ stop_calls' = [stop_calls EXCEPT ![k].pc = "notify"]
    /\ UNCHANGED <<taskFrame, auxVars, ctx_state, task, next_instance>>

\* The rest of RunningState.stop (lines 265-271): the notices to the admins, then
\* BotContext.state = IdleState(); stop() returns.
StopFinish(k) ==
    /\ stop_calls[k].pc = "notify"
    /\ ctx_state' = Idle
    /\ stop_calls' = [stop_calls EXCEPT ![k] = NoStop]
    /\ UNCHANGED <<engineVars, auxVars, task, next_instance>>

\* The event loop runs a new task: _schedule_check enters its loop.
TaskRun(r) ==
    /\ task[r].pc = "new" /\ ~task[r].cancel
    /\ task' = [task EXCEPT ![r].pc = "body"]
    /\ UNCHANGED <<engineVars, auxVars, ctx_state, stop_calls, next_instance>>

\* The loop body ends and the task goes to asyncio.sleep(60).
TickDone(r) ==
    /\ task[r].pc = "body" /\ ~task[r].cancel
    /\ task' = [task EXCEPT ![r].pc = "sleep"]
    /\ UNCHANGED <<engineVars, auxVars, ctx_state, stop_calls, next_instance>>

\* The loop body raises an exception; the handler of lines 145-149 logs it and
\* goes to asyncio.sleep(10).
TickRaise(r) ==
    /\ task[r].pc = "body" /\ ~task[r].cancel
    /\ task' = [task EXCEPT ![r].pc = "backoff", ![r].raised = TRUE]
    /\ UNCHANGED <<engineVars, auxVars, ctx_state, stop_calls, next_instance>>

\* asyncio.sleep(60) is over: the next iteration of the loop.
TickWake(r) ==
    /\ task[r].pc = "sleep" /\ ~task[r].cancel
    /\ task' = [task EXCEPT ![r].pc = "body"]
    /\ UNCHANGED <<engineVars, auxVars, ctx_state, stop_calls, next_instance>>

\* asyncio.sleep(10) is over (lines 150-151): the task is not cancelled, so
\* _start_schedule_task is called, from inside the task it tests; then the
\* coroutine returns.
BackoffEnd(r) ==
    /\ task[r].pc = "backoff" /\ ~task[r].cancel
    /\ LET t == start_schedule_task(task[r])
       IN  task' = [task EXCEPT ![r] = IF t = task[r] THEN [t EXCEPT !.pc = "done"]
                                      ELSE t]
    /\ UNCHANGED <<engineVars, auxVars, ctx_state, stop_calls, next_instance>>

\* The cancel request reaches the task at its await: CancelledError is caught by
\* line 143 inside the loop; a task not run yet, or one in the except handler,
\* ends cancelled.
TaskCancelled(r) ==
    /\ task[r].cancel /\ ~Done(task[r])
    /\ task' = [task EXCEPT ![r].cancel = FALSE,
                           ![r].pc = IF @ \in {"body", "sleep"} THEN "done"
                                     ELSE "cancelled"]
    /\ UNCHANGED <<engineVars, auxVars, ctx_state, stop_calls, next_instance>>

NextTask ==
    \/ ToggleStart
    \/ \E k \in 1..MaxStops : ToggleStop(k)
    \/ \E k \in 1..MaxStops : StopAwaited(k)
    \/ \E k \in 1..MaxStops : StopSweep(k)
    \/ \E k \in 1..MaxStops : StopFinish(k)
    \/ \E r \in 1..Len(task) : TaskRun(r)
    \/ \E r \in 1..Len(task) : TickDone(r)
    \/ \E r \in 1..Len(task) : TickRaise(r)
    \/ \E r \in 1..Len(task) : TickWake(r)
    \/ \E r \in 1..Len(task) : BackoffEnd(r)
    \/ \E r \in 1..Len(task) : TaskCancelled(r)

SpecTask == InitTask /\ [][NextTask]_vars

(***************************************************************************)
(* SpecRace: BotContext.rotate_now running beside RunningState.stop.  Both *)
(* are coroutines of handlers that the dispatcher runs as separate tasks,  *)
(* so each goes on at the awaits of the other.  The engine starts with     *)
(* RunningState 1 in place, its task asleep, and the records and pins an   *)
(* earlier publish left.  stop() steps as in SpecTask; rotate_now is its   *)
(* check of line 315, then its Store reads, then forward_and_pin_message   *)
(* one loop iteration per step as in SpecFwd.  One rotate_now call that    *)
(* reaches forward_and_pin_message is followed, up to its return.          *)
(*   call.pc  "checked": rotate_now is past line 315, at its reads         *)
(***************************************************************************)
InitRace ==
    /\ state = "Idle"
    /\ last_check_date = NoDate
    /\ processed_slots = {}
    /\ current_active_channel = NoChannel
    /\ current_pinned_message = None
    /\ day = 0
    /\ clk = 1
    /\ schedules = <<>>
    /\ last_messages = [c \in Channels |-> None]
    /\ target_chats = [i \in 1..NumDests |-> i]
    /\ pinned_messages \in [Dests -> MsgIds \cup {None}]
    /\ chat_pins = [d \in Dests |-> {pinned_messages[d]} \ {None}]
    /\ test_pending = [d \in Dests |-> None]
    /\ call = NoCall
    /\ log = <<>>
    /\ report = Report("init", FALSE)
    /\ invoked_today = {}
    /\ skipped_today = {}
    /\ succeeded_session = {}
    /\ succeeded_activation = {}
    /\ ctx_state = 1
    /\ task = <<[NewTask EXCEPT !.pc = "sleep"]>>
    /\ stop_calls = [k \in 1..MaxStops |-> NoStop]
    /\ next_instance = 2
    /\ AuxInit

\* rotate_now, line 315: if not isinstance(self.state, RunningState): return False
RotateCheck ==
    /\ call.pc = "idle"
    /\ call' = IF ctx_state # Idle THEN [NoCall EXCEPT !.pc = "checked"] ELSE NoCall
    /\ log' = <<>>
    /\ Commit(World0, Report("rotate_now", FALSE))
    /\ UNCHANGED <<fwdFrame, test_pending>>

\* rotate_now, lines 318-322: the reads _get_active_channel and get_last_message
\* have returned the channel and its last item message_id (None: no active slot,
\* or no item) and forward_and_pin_message is called, up to its loop.  self.state
\* is not looked at again.
RotateForward(channel_id, message_id) ==
    /\ call.pc = "checked"
    /\ call' = IF message_id # None
               THEN [NoCall EXCEPT !.pc = IF Len(target_chats) = 0 THEN "done"
                                          ELSE "loop",
                                   !.channel_id = channel_id,
                                   !.message_id = message_id, !.i = 1]
               ELSE NoCall
    /\ log' = <<>>
    /\ Commit(World0, Report("rotate_forward", FALSE))
    /\ UNCHANGED <<fwdFrame, test_pending>>

NextRace ==
    \/ ToggleStop(1)
    \/ TaskCancelled(1)
    \/ StopAwaited(1)
    \/ StopSweep(1)
    \/ StopFinish(1)
    \/ RotateCheck
    \/ \E m \in FwdItems \cup {None} : RotateForward("A", m)
    \/ FwdChat
    \/ FwdReturn

SpecRace == InitRace /\ [][NextRace]_vars

(***************************************************************************)
(* SpecPure: the functions without state, applied to arguments drawn from  *)
(* small sets.  probe holds the function, its arguments and, once applied, *)
(* its result (for find_latest_message also left, the probe copies still   *)
(* in the channel).                                                        *)
(***************************************************************************)
\* "HH:MM" strings, as <<hours, minutes>>
RangeTimes == {0, 1, 2, 12, 22, 23} \X {0, 30}

RangeInputs ==
    {[fn |-> "range", args |-> a, done |-> FALSE, out |-> FALSE] :
        a \in RangeTimes \X RangeTimes \X RangeTimes}

\* Message ids of a channel around the bounds of the two search windows, for the
\* last saved ids None (start 1000), 10 (start 60) and 160 (start 210).
FindIds == {1, 10, 70, 259, 260, 800, 1000, 1199}
FailIds == {70, 1000}
LastIds == {None, 10, 160}

\* The probed ids for whose copy delete_message can raise.
UndeletableIds == {10, 259}

FindInputs ==
    {[fn |-> "find", args |-> a, done |-> FALSE, out |-> None, left |-> {}] :
        a \in (SUBSET FindIds) \X (SUBSET FailIds) \X LastIds
                 \X (SUBSET UndeletableIds)}

\* The start and end times of two slots.
OverlapTimes == {<<0, 0>>, <<2, 0>>, <<12, 0>>, <<22, 0>>, <<23, 30>>}

OverlapInputs ==
    {[fn |-> "overlap", args |-> a, done |-> FALSE, out |-> FALSE] :
        a \in OverlapTimes \X OverlapTimes \X OverlapTimes \X OverlapTimes}

PureInputs == RangeInputs \cup FindInputs \cup OverlapInputs

QuietEngine ==
    /\ state = "Idle"
    /\ last_check_date = NoDate
    /\ processed_slots = {}
    /\ current_active_channel = NoChannel
    /\ current_pinned_message = None
    /\ day = 0
    /\ clk = 1
    /\ schedules = <<>>
    /\ last_messages = [c \in Channels |-> None]
    /\ target_chats = <<>>
    /\ pinned_messages = [d \in Dests |-> None]
    /\ chat_pins = [d \in Dests |-> {}]
    /\ test_pending = [d \in Dests |-> None]
    /\ call = NoCall
    /\ log = <<>>
    /\ report = Report("init", FALSE)
    /\ invoked_today = {}
    /\ skipped_today = {}
    /\ succeeded_session = {}
    /\ succeeded_activation = {}
    /\ ctx_state = Idle
    /\ task = <<>>
    /\ stop_calls = [k \in 1..MaxStops |-> NoStop]
    /\ next_instance = 1

InitPure ==
    /\ QuietEngine
    /\ probe \in PureInputs
    /\ chat_cache = <<>>
    /\ cache_now = 1
    /\ cache_pending = <<>>
    /\ cache_report = [op |-> "init"]
    /\ cache_observers = <<>>
    /\ PoolInit

\* self._is_time_in_range(current_time, start_time, end_time)
ApplyRange ==
    /\ probe.fn = "range" /\ ~probe.done
    /\ probe' = [probe EXCEPT !.done = TRUE,
                              !.out = is_time_in_range(probe.args[1], probe.args[2],
                                                       probe.args[3])]
    /\ UNCHANGED <<engineVars, taskVars, cacheVars, poolVars>>

\* find_latest_message(bot, channel_id, owner_id, last_saved_id)
ApplyFind ==
    /\ probe.fn = "find" /\ ~probe.done
    /\ probe' = [probe EXCEPT !.done = TRUE,
                              !.out = FindLatestScan(probe.args[1], probe.args[2],
                                                     probe.args[3]),
                              !.left = ProbeCopiesLeft(probe.args[1], probe.args[2],
                                                       probe.args[4], probe.args[3])]
    /\ UNCHANGED <<engineVars, taskVars, cacheVars, poolVars>>

\* ForwarderBot._times_overlap (bot.py, lines 1586-1601): an interval whose end is
\* before its start gets 24 hours added to its end, then the two are compared as
\* intervals of one line.
times_overlap(start1, end1, start2, end2) ==
    LET s1 == time_to_minutes(start1)
        s2 == time_to_minutes(start2)
        e1 == IF time_to_minutes(end1) < s1 THEN time_to_minutes(end1) + 24 * 60
              ELSE time_to_minutes(end1)
        e2 == IF time_to_minutes(end2) < s2 THEN time_to_minutes(end2) + 24 * 60
              ELSE time_to_minutes(end2)
    IN  ~(e1 <= s2 \/ e2 <= s1)

\* self._times_overlap(start_time, end_time, schedule['start_time'],
\* schedule['end_time']), as _save_schedule calls it for a stored slot.
ApplyOverlap ==
    /\ probe.fn = "overlap" /\ ~probe.done
    /\ probe' = [probe EXCEPT !.done = TRUE,
                              !.out = times_overlap(probe.args[1], probe.args[2],
                                                    probe.args[3], probe.args[4])]
    /\ UNCHANGED <<engineVars, taskVars, cacheVars, poolVars>>

NextPure ==
    \/ ApplyRange
    \/ ApplyFind
    \/ ApplyOverlap

SpecPure == InitPure /\ [][NextPure]_vars

(***************************************************************************)
(* SpecCache: services/chat_cache.py, ChatCacheService.                    *)
(*                                                                         *)
(* chat_cache[c]   last_updated of the entry of chat c, NoEntry without    *)
(* cache_now       the wall clock, an index in CachePoints                 *)
(* cache_pending   the get_chat_info calls past the cache check, waiting   *)
(*                 for the gateway: the chat and the `now` of the call     *)
(* cache_report    the last operation: op, chat, hit, calls (gateway calls *)
(*                 made), notified (observers called), ret (last_updated   *)
(*                 of the ChatInfo returned, NoEntry for None), evicted    *)
(*                 (the chat whose entry was deleted, 0 for none)          *)
(*                 called (the observers notified, in the order of the     *)
(*                 calls), raised (those whose on_cache_update raised)     *)
(* cache_observers the registered observers, in the order of the list      *)
(* The only observer of the repository, ForwarderBot.on_cache_update, does *)
(* not await: storing the entry, notifying and evicting are one step.      *)
(***************************************************************************)
CacheChats == 1..NumCacheChats

\* Config.cache_ttl, seconds
CacheTtl == 300

\* datetime.now().timestamp() at the moments looked at
CachePoints == <<0, 299, 300, 600>>

CacheReport(op, chat) ==
    [op |-> op, chat |-> chat, hit |-> FALSE, calls |-> 0, notified |-> FALSE,
     ret |-> NoEntry, evicted |-> 0, called |-> <<>>, raised |-> {}]

CacheObservers == 1..NumObservers

\* observer in self._observers
Registered(observers) == {observers[i] : i \in 1..Len(observers)}

InitCache ==
    /\ QuietEngine
    /\ probe = NoProbe
    /\ chat_cache = [c \in CacheChats |-> NoEntry]
    /\ cache_now = 1
    /\ cache_pending = <<>>
    /\ cache_report = CacheReport("init", 0)
    /\ cache_observers = <<>>
    /\ PoolInit

Cached(cache) == {c \in CacheChats : cache[c] # NoEntry}

\* What the cache check would be without the test of the entry's age.
CacheHit_any_age(cache, chat_id, now) == cache[chat_id] # NoEntry

\* chat_id in self._cache and now - chat_info.last_updated < cache_ttl (lines 64-66)
CacheHit(cache, chat_id, now) ==
    cache[chat_id] # NoEntry /\ now - cache[chat_id] < CacheTtl

\* What the eviction would pick if it took the newest entry.
Oldest_newest(cache) ==
    {c \in Cached(cache) : \A e \in Cached(cache) : cache[e] <= cache[c]}

\* min(self._cache.items(), key=lambda x: x[1].last_updated): an entry with the
\* smallest last_updated (the first of them in the dict's order).
Oldest(cache) ==
    {c \in Cached(cache) : \A e \in Cached(cache) : cache[c] <= cache[e]}

\* get_chat_info up to its first await (lines 59-71): a fresh cached entry is
\* returned, otherwise the call goes to the gateway.
GetChatInfo(chat_id) ==
    LET now == CachePoints[cache_now] IN
    /\ IF CacheHit(chat_cache, chat_id, now)
       THEN /\ cache_report' = [CacheReport("get", chat_id) EXCEPT
                                  !.hit = TRUE, !.ret = chat_cache[chat_id]]
            /\ UNCHANGED cache_pending
       ELSE /\ Len(cache_pending) < MaxPending
            /\ cache_pending' = Append(cache_pending,
                                       [chat |-> chat_id, now |-> now])
            /\ cache_report' = CacheReport("get", chat_id)
    /\ UNCHANGED <<engineVars, taskVars, pureVars, poolVars, chat_cache, cache_now, cache_observers>>

\* _notify_observers (lines 50-57) from position i of the list on: each observer's
\* on_cache_update is awaited; raising is the set of observers whose call raises
\* an exception, which is caught and logged.  called: the observers in the order
\* of their calls; logged: those whose exception was logged.
RECURSIVE NotifyObservers(_, _, _)
\* What _notify_observers would be without the try/except around each call: the
\* first observer that raises ends the loop.
NotifyObservers_unprotected(observers, raising, i) ==
    LET bad == {j \in i..Len(observers) : observers[j] \in raising}
        last == IF bad = {} THEN Len(observers) ELSE Min(bad)
    IN  [called |-> SubSeq(observers, i, last), logged |-> {}]

NotifyObservers(observers, raising, i) ==
    IF i > Len(observers) THEN [called |-> <<>>, logged |-> {}]
    ELSE LET rest == NotifyObservers(observers, raising, i + 1)
         IN  [called |-> <<observers[i]>> \o rest.called,
              logged |-> IF observers[i] \in raising
                         THEN {observers[i]} \cup rest.logged ELSE rest.logged]

\* The rest of get_chat_info for the pending call k (lines 69-122).  fetched: the
\* gateway calls get_chat and get_me succeed; otherwise the exception is caught
\* and the call returns None, the cache as it was.  raising: the observers whose
\* on_cache_update raises.
GetChatInfoEnd(k, fetched, raising) ==
    /\ k \in 1..Len(cache_pending)
    /\ raising \subseteq Registered(cache_observers)
    /\ fetched \/ raising = {}
    /\ LET chat_id == cache_pending[k].chat
           now == cache_pending[k].now
           stored == [chat_cache EXCEPT ![chat_id] = now]
           notice == NotifyObservers(cache_observers, raising, 1)
           rest == [j \in 1..(Len(cache_pending) - 1) |->
                      IF j < k THEN cache_pending[j] ELSE cache_pending[j + 1]]
       IN
       /\ cache_pending' = rest
       /\ IF fetched
          THEN IF Cardinality(Cached(stored)) > MaxCacheSize
               THEN \E oldest \in Oldest(stored) :
                      /\ chat_cache' = [stored EXCEPT ![oldest] = NoEntry]
                      /\ cache_report' = [CacheReport("get_end", chat_id) EXCEPT
                                            !.calls = 1, !.notified = TRUE,
                                            !.called = notice.called,
                                            !.raised = notice.logged,
                                            !.ret = now, !.evicted = oldest]
               ELSE /\ chat_cache' = stored
                    /\ cache_report' = [CacheReport("get_end", chat_id) EXCEPT
                                          !.calls = 1, !.notified = TRUE,
                                          !.called = notice.called,
                                          !.raised = notice.logged,
                                          !.ret = now]
          ELSE /\ chat_cache' = chat_cache
               /\ cache_report' = [CacheReport("get_end", chat_id) EXCEPT
                                     !.calls = 1]
    /\ UNCHANGED <<engineVars, taskVars, pureVars, poolVars, cache_now, cache_observers>>

\* add_observer(observer): appended unless it is in the list already.
AddObserver(observer) ==
    /\ cache_observers' = IF observer \in Registered(cache_observers)
                          THEN cache_observers
                          ELSE Append(cache_observers, observer)
    /\ cache_report' = CacheReport("add_observer", 0)
    /\ UNCHANGED <<engineVars, taskVars, pureVars, poolVars, chat_cache, cache_now,
                   cache_pending>>

\* remove_observer(observer): list.remove, the others keep their order.
RemoveObserver(observer) ==
    /\ cache_observers' = SelectSeq(cache_observers, LAMBDA o : o # observer)
    /\ cache_report' = CacheReport("remove_observer", 0)
    /\ UNCHANGED <<engineVars, taskVars, pureVars, poolVars, chat_cache, cache_now,
                   cache_pending>>

\* remove_from_cache(chat_id): self._cache.pop(chat_id, None)
RemoveFromCache(chat_id) ==
    /\ chat_cache' = [chat_cache EXCEPT ![chat_id] = NoEntry]
    /\ cache_report' = CacheReport("remove", chat_id)
    /\ UNCHANGED <<engineVars, taskVars, pureVars, poolVars, cache_now, cache_pending, cache_observers>>

\* clear_cache(): self._cache.clear()
ClearCache ==
    /\ chat_cache' = [c \in CacheChats |-> NoEntry]
    /\ cache_report' = CacheReport("clear", 0)
    /\ UNCHANGED <<engineVars, taskVars, pureVars, poolVars, cache_now, cache_pending, cache_observers>>

\* Time passes.
CacheTick ==
    /\ cache_now < Len(CachePoints)
    /\ cache_now' = cache_now + 1
    /\ UNCHANGED <<engineVars, taskVars, pureVars, poolVars, chat_cache, cache_pending,
                   cache_report, cache_observers>>

NextCache ==
    \/ \E c \in CacheChats : GetChatInfo(c)
    \/ \E k \in 1..MaxPending, fetched \in BOOLEAN, raising \in SUBSET CacheObservers :
          GetChatInfoEnd(k, fetched, raising)
    \/ \E o \in CacheObservers : AddObserver(o)
    \/ \E o \in CacheObservers : RemoveObserver(o)
    \/ \E c \in CacheChats : RemoveFromCache(c)
    \/ ClearCache
    \/ CacheTick

SpecCache == InitCache /\ [][NextCache]_vars

(***************************************************************************)
(* SpecPool: database/repository.py, DatabaseConnectionPool.get_connection *)
(* called by several coroutines of one event loop, one step per await.     *)
(*                                                                         *)
(* db_connections[c]  in_use of the c-th connection of _active_connections *)
(*                    (no connection is closed while the bot runs)         *)
(* db_acquirers[a]    where caller a is:                                   *)
(*   "out"         not in get_connection                                   *)
(*   "connecting"  at await aiosqlite.connect (line 66)                    *)
(*   "waiting"     at await asyncio.sleep(0.1) of the wait loop (line 79)  *)
(*   "holding"     inside its `async with` block, with connection conn     *)
(***************************************************************************)
InitPool ==
    /\ QuietEngine
    /\ probe = NoProbe
    /\ chat_cache = <<>>
    /\ cache_now = 1
    /\ cache_pending = <<>>
    /\ cache_report = [op |-> "init"]
    /\ cache_observers = <<>>
    /\ PoolInit

\* The connections with in_use false.
FreeConnections == {c \in 1..Len(db_connections) : ~db_connections[c]}

\* if len(cls._active_connections) < max_connections: (line 64)
BelowLimit == Len(db_connections) < MaxDbConnections

\* The loop over cls._pool (lines 57-61, 80-86) takes a free connection and sets
\* in_use; the WeakSet is iterated in no particular order.
Take(a, c) ==
    /\ db_connections' = [db_connections EXCEPT ![c] = TRUE]
    /\ db_acquirers' = [db_acquirers EXCEPT ![a] = [pc |-> "holding", conn |-> c]]

\* get_connection up to its first await or its yield (lines 48-78): a free
\* connection of the pool, else a new one if the limit allows, else the wait loop.
GetConnection(a) ==
    /\ db_acquirers[a].pc = "out"
    /\ IF FreeConnections # {}
       THEN \E c \in FreeConnections : Take(a, c)
       ELSE /\ db_acquirers' = [db_acquirers EXCEPT
                                  ![a].pc = IF BelowLimit THEN "connecting"
                                            ELSE "waiting"]
            /\ UNCHANGED db_connections
    /\ UNCHANGED <<engineVars, taskVars, pureVars, cacheVars>>

\* await aiosqlite.connect returns (lines 66-70): the connection is marked in
\* use and appended to _active_connections; the caller's block runs.
Connected(a) ==
    /\ db_acquirers[a].pc = "connecting"
    /\ db_connections' = Append(db_connections, TRUE)
    /\ db_acquirers' = [db_acquirers EXCEPT
                          ![a] = [pc |-> "holding", conn |-> Len(db_connections) + 1]]
    /\ UNCHANGED <<engineVars, taskVars, pureVars, cacheVars>>

\* aiosqlite.connect raises (lines 71-73): the exception leaves get_connection.
ConnectFailed(a) ==
    /\ db_acquirers[a].pc = "connecting"
    /\ db_acquirers' = [db_acquirers EXCEPT ![a] = Outside]
    /\ UNCHANGED <<engineVars, taskVars, pureVars, cacheVars, db_connections>>

\* The wait loop after asyncio.sleep(0.1) (lines 78-91): a free connection is
\* taken; without one the caller sleeps again, or raises TimeoutError once 30
\* seconds are over.
WaitPoll(a, timed_out) ==
    /\ db_acquirers[a].pc = "waiting"
    /\ IF FreeConnections # {}
       THEN \E c \in FreeConnections : Take(a, c)
       ELSE /\ timed_out
            /\ db_acquirers' = [db_acquirers EXCEPT ![a] = Outside]
            /\ UNCHANGED db_connections
    /\ UNCHANGED <<engineVars, taskVars, pureVars, cacheVars>>

\* The caller's block exits, normally or by an exception: finally (lines 95-98)
\* sets in_use to False.
ReleaseConnection(a) ==
    /\ db_acquirers[a].pc = "holding"
    /\ db_connections' = [db_connections EXCEPT ![db_acquirers[a].conn] = FALSE]
    /\ db_acquirers' = [db_acquirers EXCEPT ![a] = Outside]
    /\ UNCHANGED <<engineVars, taskVars, pureVars, cacheVars>>

NextPool ==
    \/ \E a \in 1..NumAcquirers : GetConnection(a)
    \/ \E a \in 1..NumAcquirers : Connected(a)
    \/ \E a \in 1..NumAcquirers : ConnectFailed(a)
    \/ \E a \in 1..NumAcquirers, timed_out \in BOOLEAN : WaitPoll(a, timed_out)
    \/ \E a \in 1..NumAcquirers : ReleaseConnection(a)

SpecPool == InitPool /\ [][NextPool]_vars

(***************************************************************************)
(* Properties of Spec.                                                     *)
(***************************************************************************)
TickPublish == report'.op = "tick" /\ report'.invoked

\* C2 (as stated): on a calendar day the tick loop invokes forward_and_pin_message
\* for a slotId at most once, also when the publish fails and when the engine is
\* stopped and started again: no tick invokes it for a slot it was already invoked
\* for on that day.
C2_OncePerDay ==
    [][TickPublish => report'.slot \notin invoked_today]_vars

\* C2 (amended): within one RunningState and one calendar day, once a tick's publish
\* for a slotId has succeeded no tick invokes the publish for that slotId again, so
\* it succeeds at most once.
C2_OncePerRunningState ==
    [][TickPublish => report'.slot \notin succeeded_session]_vars

\* C2 witness: a later tick inside a slot already published today by this
\* RunningState, which does not publish.
C2_Witness ==
    /\ report.op = "tick" /\ ~report.invoked /\ ~report.rollover
    /\ report.slot \in succeeded_session

\* C4 (as stated): during one activation of a slot, with the engine Running all
\* along, the tick loop publishes the slot successfully once only, also when the
\* slot crosses midnight.
C4_OncePerActivation ==
    [][(TickPublish /\ report'.ret) => report'.slot \notin succeeded_activation]_vars

C10_RotateNow ==
    [][report'.op = "rotate_now" =>
        LET info == get_active_channel_info(schedules, ClockPoints[clk])
        IN  /\ (state # "Running" \/ ~info.found) =>
                  /\ ~report'.ret /\ report'.ops = {} /\ ~report'.invoked
                  /\ UNCHANGED <<pinned_messages, chat_pins, last_messages>>
            /\ (state = "Running" /\ info.found /\ report'.reads_ok
                /\ last_messages[info.channel_id] # None) =>
                  /\ report'.invoked
                  /\ \E ex \in ExistingItems :
                     \E r \in forward_and_pin_message(World(ex), info.channel_id,
                                                      last_messages[info.channel_id]) :
                        /\ report'.ret = r.ret
                        /\ pinned_messages' = r.w.rec
                        /\ chat_pins' = r.w.pin
                        /\ last_messages' = r.w.last
      ]_vars

\* C10 witness: rotate_now published and returned True.
C10_Witness ==
    report.op = "rotate_now" /\ report.invoked /\ report.ret

\* C20 (as stated): a tick whose read of the schedule fails (it sees no slot
\* although a row of the schedule contains the current time) on a day already
\* seen makes no unpin call and leaves the pinned-message records,
\* _current_active_channel and _processed_slots as they were.
C20_FailedReadAbandonsTick ==
    [][(/\ report'.op = "tick" /\ clk' = clk /\ day' = day
        /\ state = "Running" /\ last_check_date = day
        /\ get_active_channel_info(schedules, ClockPoints[clk]).found
        /\ report'.slot = NoSlot)
       => /\ "unpin" \notin report'.ops
          /\ UNCHANGED <<pinned_messages, chat_pins, current_active_channel,
                         processed_slots>>
      ]_vars

\* C25: a tick resolves at most one slot, the first row of the schedule, in the
\* order get_schedules returns it, that contains the current time; it invokes the
\* publish for no other slot, and what it publishes is the stored last item of
\* that slot's channel, which becomes the active channel when the publish succeeds.
C25_FirstMatchWins ==
    [][report'.op = "tick" =>
        LET hits == {i \in 1..Len(schedules) :
                        is_time_in_range(ClockPoints[clk], schedules[i].start_time,
                                         schedules[i].end_time)}
        IN  /\ report'.slot # NoSlot =>
                  /\ hits # {}
                  /\ report'.slot = SlotId(schedules[Min(hits)])
                  /\ \A i \in hits \ {Min(hits)} :
                        SlotId(schedules[i]) \notin (processed_slots' \ processed_slots)
            /\ report'.invoked =>
                  /\ report'.slot # NoSlot
                  /\ last_messages[report'.slot[1]] # None
                  /\ invoked_today' = invoked_today \cup {report'.slot}
                  /\ report'.ret => current_active_channel' = report'.slot[1]
            /\ ~report'.invoked => invoked_today' = invoked_today
      ]_vars

\* C25 witness: two slots contain 10:00; the tick published the channel of the one
\* that starts first, while the channel of the other has a stored last item too.
C25_Witness ==
    /\ report.op = "tick" /\ report.invoked /\ report.ret
    /\ Cardinality(ActiveAt(clk)) = 2
    /\ report.slot = SlotId(schedules[1])
    /\ current_active_channel = "A"
    /\ last_messages["B"] # None
    /\ SlotId(schedules[2]) \notin processed_slots

\* C26 (as stated): a slot that a tick marked processed without a publish, no last
\* item being stored for its channel, is not published by a tick later on the same
\* calendar day, whatever arrives for the channel.
C26_NoLatePublish ==
    [][TickPublish => report'.slot \notin skipped_today]_vars

\* C26 (amended): a tick that resolves a slot not in _processed_slots (or sees a
\* new date) while no last item is stored for the slot's channel makes no forward
\* and no pin and puts the slot in _processed_slots; a tick that does not see a
\* new date invokes the publish for no slot of _processed_slots; and the set only
\* loses a slot when a tick sees a new date or a new RunningState is created.  So
\* within one RunningState and one calendar day an item that arrives later is not
\* published for that slot.
C26_EmptySlotMarked ==
    [][/\ (report'.op = "tick" /\ report'.slot # NoSlot
           /\ (report'.rollover \/ report'.slot \notin processed_slots)
           /\ last_messages[report'.slot[1]] = None) =>
             /\ ~report'.invoked
             /\ report'.ops \subseteq {"unpin"}
             /\ report'.slot \in processed_slots'
             /\ report'.slot \in skipped_today'
       /\ (TickPublish /\ ~report'.rollover) => report'.slot \notin processed_slots
       /\ (report'.op = "tick" /\ report'.rollover) => last_check_date # day
       /\ processed_slots \subseteq processed_slots'
             \/ (report'.op = "tick" /\ report'.rollover)
             \/ (report'.op = "start" /\ state = "Idle")
      ]_vars

\* C26 witness: a tick inside a slot that was marked without a publish earlier on
\* the day, after an item has arrived for its channel: nothing is published.
C26_Witness ==
    /\ report.op = "tick" /\ ~report.rollover /\ ~report.invoked
    /\ report.reads_ok /\ report.ops = {}
    /\ report.slot \in skipped_today \cap processed_slots
    /\ last_messages[report.slot[1]] # None

\* C27 (as stated): a tick that resolves a slot not yet processed and whose read of
\* the channel's last item fails, while an item is stored, does not put the slot in
\* _processed_slots: the next tick tries again.
C27_FailedReadRetried ==
    [][(/\ report'.op = "tick" /\ report'.slot # NoSlot
        /\ (report'.rollover \/ report'.slot \notin processed_slots)
        /\ ~report'.reads_ok
        /\ last_messages[report'.slot[1]] # None)
       => report'.slot \notin processed_slots'
      ]_vars

C36_NoRecordAfterSlot ==
    [][(/\ report'.op = "tick" /\ report' # report /\ state = "Running"
        /\ report'.slot = NoSlot /\ ActiveAt(clk) = {} /\ report'.reads_ok
        /\ skipped_today # {} /\ invoked_today = {})
       => \A d \in 1..EngineDests :
             pinned_messages'[d] # None => "unpin" \in report'.ops
      ]_vars

(***************************************************************************)
(* Properties of SpecLive.                                                 *)
(***************************************************************************)
\* The model has message ids left for a forwarded copy in every target chat.
IdsLeft == \A d \in 1..EngineDests : FreeIds(World0, d) # {}

\* C38 (as stated): a publish of a tick that failed, for a slot whose channel has
\* a stored item, leaves the slot unprocessed and is retried by the ticks that
\* follow: under the fairness of SpecLive the slot is published by a tick (and
\* marked processed), unless the slot ends first.
C38_FailedPublishRetried ==
    \A sl \in {SlotId(DaySchedule[i]) : i \in 1..Len(DaySchedule)} :
       (/\ report.op = "tick" /\ report.invoked /\ ~report.ret /\ report.slot = sl
        /\ last_messages[sl[1]] # None /\ IdsLeft)
       ~> \/ sl \in succeeded_session /\ sl \in processed_slots
          \/ sl \notin ActiveAt(clk)
          \/ ~IdsLeft

(***************************************************************************)
(* Properties of SpecFwd.                                                  *)
(***************************************************************************)
\* C1 (as stated): in every state every target chat has at most one message pinned
\* by the bot.
C1_AtMostOnePinned ==
    \A d \in Dests : Cardinality(chat_pins[d]) <= 1

\* C3 (as stated): when forward_and_pin_message returns, every chat it counted as a
\* success (its forward succeeded) has a record, that of the copy forwarded to it
\* by this call.
C3_RecordIsForwardedCopy ==
    call.pc = "done" =>
       \A d \in Dests : call.copies[d] > 0 => pinned_messages[d] = call.copy[d]

\* C3 (amended): a loop iteration of forward_and_pin_message leaves the record of
\* its chat at the forwarded copy when the forward, the pin and the save all
\* succeeded and as it was otherwise, and touches no other chat's record; so when
\* the call returns, every chat for which a copy was pinned and saved has the
\* record of the last such copy.
C3_RecordIsSavedCopy ==
    /\ [][report'.op = "fwd_chat" =>
            LET d == target_chats[call.i]
                saved == \E k \in 1..Len(log') :
                            log'[k].op = "save" /\ log'[k].res = "ok"
                pinned == \E k \in 1..Len(log') :
                            log'[k].op = "pin" /\ log'[k].res = "ok"
            IN  /\ \A e \in Dests \ {d} : pinned_messages'[e] = pinned_messages[e]
                /\ (saved /\ pinned) =>
                      /\ pinned_messages'[d] = call'.copy[d]
                      /\ log'[1].op = "forward" /\ log'[1].res = "ok"
                      /\ log'[1].c = call'.copy[d]
                /\ ~(saved /\ pinned) => pinned_messages'[d] = pinned_messages[d]
         ]_vars
    /\ [](call.pc = "done" =>
            \A d \in Dests : call.saved[d] # None
                                => pinned_messages[d] = call.saved[d])

\* C3 witness: the call returned having replaced the record of one chat by the
\* copy it pinned there, and having left the record of another chat, where the pin
\* of the copy failed, as it was.
C3_Witness ==
    /\ call.pc = "done" /\ call.ret
    /\ \E d, e \in Dests :
          /\ call.saved[d] # None /\ pinned_messages[d] = call.saved[d]
          /\ call.copies[e] > 0 /\ call.saved[e] = None
          /\ pinned_messages[e] \notin {None, call.copy[e]}

(***************************************************************************)
(* Properties of SpecTask.                                                 *)
(***************************************************************************)
\* C7 (as stated): while the RunningState in place has not been stopped, its
\* schedule loop does not end, also after the loop body raised.
C7_LoopSurvivesException ==
    \A r \in 1..Len(task) :
       (ctx_state = r /\ ~task[r].stopped) => ~Done(task[r])

\* C8 (as stated): at no time are two loop bodies in progress.
C8_OneTickBody ==
    Cardinality({r \in 1..Len(task) : task[r].pc = "body"}) <= 1

\* C11 (as stated): stop() calls on a Running engine, one after another or
\* overlapping, end as one does: once they have all returned and the engine is
\* Idle, no schedule loop is alive.
C11_StopsLeaveNoLoop ==
    (ctx_state = Idle /\ \A k \in 1..MaxStops : stop_calls[k] = NoStop)
       => \A r \in 1..Len(task) : Done(task[r])

AliveTasks == {r \in 1..Len(task) : ~Done(task[r])}

\* C32 (as stated): whenever BotContext.state is Idle no tick-loop task is alive,
\* and at any time at most one tick-loop task is alive, under every interleaving
\* of start() and stop() calls.
C32_IdleNoTaskAtMostOne ==
    /\ ctx_state = Idle => AliveTasks = {}
    /\ Cardinality(AliveTasks) <= 1

(***************************************************************************)
(* Properties of SpecRace.                                                 *)
(***************************************************************************)
\* C33 (as stated): no forward or pin call goes to the gateway while the engine is
\* Idle, also for a rotate_now that passed its Running check before a stop()
\* running beside it completed; and once that stop() has returned, no loop
\* iteration of the rotate_now writes a record.
C33_NoPublishWhileIdle ==
    [][(/\ call.pc = "loop" /\ call.i <= Len(target_chats)
        /\ call' # call /\ report'.op = "fwd_chat"
        /\ ctx_state = Idle)
       => /\ report'.ops \cap {"forward", "pin"} = {}
          /\ pinned_messages' = pinned_messages
      ]_vars

(***************************************************************************)
(* Properties of SpecPure.                                                 *)
(***************************************************************************)
\* C13: for all times of day t, start, end, compared as clock times (hours first,
\* then minutes), _is_time_in_range(t, start, end) is true exactly when
\* end < start and (t >= start or t < end), or end >= start and start <= t < end:
\* 22:00-02:00 contains 23:00 and 01:00 and not 12:00, and a slot with start = end
\* contains nothing.
C13_TimeInRange ==
    (probe.fn = "range" /\ probe.done) =>
       LET t == probe.args[1]
           start == probe.args[2]
           end == probe.args[3]
           Before(a, b) == a[1] < b[1] \/ (a[1] = b[1] /\ a[2] < b[2])
       IN  /\ probe.out <=>
                \/ Before(end, start) /\ (~Before(t, start) \/ Before(t, end))
                \/ ~Before(end, start) /\ ~Before(t, start) /\ Before(t, end)
           /\ (start = <<22, 0>> /\ end = <<2, 0>>) =>
                /\ t \in {<<23, 0>>, <<1, 0>>} => probe.out
                /\ t = <<12, 0>> => ~probe.out
           /\ start = end => ~probe.out

\* C13 witness: 01:00 is found inside the slot 22:00-02:00.
C13_Witness ==
    /\ probe.fn = "range" /\ probe.done /\ probe.out
    /\ probe.args = << <<1, 0>>, <<22, 0>>, <<2, 0>> >>

\* C14 (as stated): forward_and_pin_message returns True exactly when the forward
\* to at least one target chat succeeded during the call.
C14_TrueIffSomeForward ==
    call.pc = "done" => (call.ret <=> \E d \in Dests : call.copies[d] > 0)

\* The search windows of find_latest_message for the arguments of probe: the ids
\* whose probe succeeds, the start id, the forward window [start, start + 200) and
\* the ids from max(1, start - 200) to start.
FindSeen == probe.args[1] \ probe.args[2]
FindStart == IF probe.args[3] # None THEN probe.args[3] + 50 ELSE 1000
FindForward == {m \in FindSeen : FindStart <= m /\ m < FindStart + 200}
FindLow == IF FindStart - 200 > 1 THEN FindStart - 200 ELSE 1

\* C15: find_latest_message starts at last_saved_id + 50 (1000 without one) and,
\* when an id of the forward window [start, start + 200) exists (its probe
\* succeeds), returns the largest such id.
C15_ForwardLargest ==
    (probe.fn = "find" /\ probe.done /\ FindForward # {}) =>
       /\ probe.out \in FindForward
       /\ \A m \in FindForward : m <= probe.out

\* C15 witness: two ids of the forward window exist and the larger one is returned.
C15_Witness ==
    /\ probe.fn = "find" /\ probe.done
    /\ Cardinality(FindForward) >= 2
    /\ probe.out = 259 /\ 70 \in FindForward

\* C16 (as stated): when no id of the forward window exists, the backward search
\* returns the existing id nearest to start among start down to max(1, start - 200),
\* that bound included.
C16_BackwardInclusive ==
    (probe.fn = "find" /\ probe.done /\ FindForward = {}) =>
       LET backward == {m \in FindSeen : FindLow <= m /\ m <= FindStart}
       IN  probe.out = IF backward = {} THEN None ELSE Max(backward)

\* C17: a probe that fails, "not found" or unexpectedly, only makes its id count as
\* absent: find_latest_message returns None exactly when none of the ids it
\* probes, [start, start + 200) and those below start down to but not including
\* max(1, start - 200), has a succeeding probe, and an id it returns is one whose
\* probe succeeded.  It is the id the closed form FindLatestWith gives.
C17_ProbeFailureIsAbsence ==
    (probe.fn = "find" /\ probe.done) =>
       LET probed == {m \in FindSeen : FindLow < m /\ m < FindStart + 200}
       IN  /\ probe.out # None => probe.out \in probed
           /\ probe.out = None <=> probed = {}
           /\ probe.out = FindLatestWith(FindSeen, probe.args[3])

\* C17 witness: the probe of the newest id of the forward window fails
\* unexpectedly and the search returns the next one.
C17_Witness ==
    /\ probe.fn = "find" /\ probe.done
    /\ probe.args[3] = None /\ 1000 \in probe.args[1] /\ 1000 \in probe.args[2]
    /\ probe.out = 1199

\* C31 (as stated): when find_latest_message has returned, no copy made by an
\* existence probe is left in the source channel, also when delete_message fails.
C31_NoProbeCopyLeft ==
    (probe.fn = "find" /\ probe.done) => probe.left = {}

\* The minutes of the day, as "HH:MM".
DayMinutes == (0..23) \X (0..59)

\* C39 (as stated): _times_overlap(s1, e1, s2, e2) is true exactly when some
\* minute of the day lies in both intervals as _is_time_in_range sees them,
\* intervals across midnight included.
C39_OverlapIffCommonMinute ==
    (probe.fn = "overlap" /\ probe.done) =>
       (probe.out <=>
          \E t \in DayMinutes :
             /\ is_time_in_range(t, probe.args[1], probe.args[2])
             /\ is_time_in_range(t, probe.args[3], probe.args[4]))

(***************************************************************************)
(* Properties of SpecPool.                                                 *)
(***************************************************************************)
\* C40 (as stated): under any interleaving of the callers of get_connection the
\* number of open connections is at most max_db_connections, a connection is
\* held by at most one caller, and it is in use exactly while a caller's block
\* holds it: it is free again once the block has exited.
C40_PoolBounded ==
    /\ Len(db_connections) <= MaxDbConnections
    /\ \A a, b \in 1..NumAcquirers :
          (/\ db_acquirers[a].pc = "holding" /\ db_acquirers[b].pc = "holding"
           /\ db_acquirers[a].conn = db_acquirers[b].conn) => a = b
    /\ \A c \in 1..Len(db_connections) :
          db_connections[c] <=>
             \E a \in 1..NumAcquirers :
                db_acquirers[a].pc = "holding" /\ db_acquirers[a].conn = c

(***************************************************************************)
(* Properties of SpecCache.                                                *)
(***************************************************************************)
\* C18: get_chat_info for a chat whose cached entry has now - last_updated < ttl
\* returns that entry, calls the gateway zero times, notifies no observer and
\* leaves the cache as it is; for a chat with no entry or an expired one it goes
\* to the gateway, and when the fetch succeeds it returns an entry with
\* last_updated = the now of the call, which it has stored (and which stays in
\* the cache unless the eviction that follows takes it).
C18_CacheHit ==
    [][/\ (cache_report'.op = "get"
            /\ <<cache_report, cache_pending>>' # <<cache_report, cache_pending>>) =>
             LET chat == cache_report'.chat
                 now == CachePoints[cache_now]
             IN  IF chat_cache[chat] # NoEntry /\ now - chat_cache[chat] < CacheTtl
                 THEN /\ cache_report'.hit /\ cache_report'.ret = chat_cache[chat]
                      /\ cache_report'.calls = 0 /\ ~cache_report'.notified
                      /\ UNCHANGED <<chat_cache, cache_pending>>
                 ELSE /\ ~cache_report'.hit
                      /\ cache_pending' =
                            Append(cache_pending, [chat |-> chat, now |-> now])
                      /\ UNCHANGED chat_cache
       /\ (cache_report'.op = "get_end"
            /\ Len(cache_pending') < Len(cache_pending)) =>
             /\ cache_report'.calls > 0
             /\ \E k \in 1..Len(cache_pending) :
                   /\ cache_pending[k].chat = cache_report'.chat
                   /\ cache_report'.notified =>
                         /\ cache_report'.ret = cache_pending[k].now
                         /\ cache_report'.evicted # cache_report'.chat =>
                               chat_cache'[cache_report'.chat] = cache_report'.ret
                   /\ ~cache_report'.notified =>
                         (cache_report'.ret = NoEntry /\ UNCHANGED chat_cache)
      ]_vars

\* C18 witness: a hit on an entry 299 seconds old.
C18_Witness ==
    /\ cache_report.op = "get" /\ cache_report.hit
    /\ CachePoints[cache_now] = 299 /\ cache_report.ret = 0

\* C19: the cache never holds more than max_cache_size entries, whatever the
\* order of get_chat_info, remove_from_cache and clear_cache; a get_chat_info
\* whose stored entry makes the size exceed max_cache_size deletes exactly one
\* entry, one with the smallest last_updated of the whole cache, and otherwise
\* none.
C19_CacheBounded ==
    /\ [](Cardinality(Cached(chat_cache)) <= MaxCacheSize)
    /\ [][(cache_report'.op = "get_end" /\ cache_report'.notified
            /\ Len(cache_pending') < Len(cache_pending)) =>
             LET stored == [chat_cache EXCEPT
                              ![cache_report'.chat] = cache_report'.ret]
                 evicted == cache_report'.evicted
             IN  IF Cardinality(Cached(stored)) > MaxCacheSize
                 THEN /\ evicted \in Cached(stored)
                      /\ \A e \in Cached(stored) : stored[evicted] <= stored[e]
                      /\ chat_cache' = [stored EXCEPT ![evicted] = NoEntry]
                 ELSE evicted = 0 /\ chat_cache' = stored
         ]_vars

\* C19 witness: a full cache, a third chat fetched, the oldest entry deleted.
C19_Witness ==
    /\ cache_report.op = "get_end" /\ cache_report.evicted # 0
    /\ cache_report.evicted # cache_report.chat
    /\ chat_cache[cache_report.chat] = cache_report.ret
    /\ Cardinality(Cached(chat_cache)) = MaxCacheSize

\* C21 (as stated): the manual test pin unpins the message on record for its chat
\* before it pins the test message, and when it ends the record of the chat does
\* not name a message that is not pinned.
C21_TestPinUnpinsFirst ==
    [][\A d \in Dests :
         /\ (report'.op = "test_pin" /\ test_pending[d] = None
             /\ test_pending'[d] # None /\ pinned_messages[d] # None) =>
               /\ "unpin" \in report'.ops
               /\ pinned_messages[d] \notin chat_pins'[d]
         /\ (report'.op = "test_pin_finish" /\ test_pending[d] # None
             /\ test_pending'[d] = None /\ pinned_messages'[d] # None) =>
               pinned_messages'[d] \in chat_pins'[d]
      ]_vars

\* C22 (as stated): when the forward to a chat reports "not found" and the search
\* gives no different id, the call goes on to the chats that follow in the list:
\* the loop moves to the next position with the same message id.
C22_StaleChatOnlyFails ==
    [][(/\ report'.op = "fwd_chat"
        /\ log'[1].op = "forward" /\ log'[1].res = "notfound"
        /\ call'.message_id = call.message_id)
       => (call'.pc = "loop" /\ call'.i = call.i + 1)
      ]_vars

\* C23 (as stated): a chat whose forward succeeded and whose pin failed (the copy
\* forwarded to it last is not pinned when the call returns) counts as a success:
\* the call returns True, which makes the tick mark the slot and record the active
\* channel, and the chat's record is not that copy.
C23_PinFailureCountsAsSuccess ==
    call.pc = "done" =>
       \A d \in Dests :
          (call.copy[d] # None /\ call.copy[d] \notin chat_pins[d]) =>
             (call.ret /\ pinned_messages[d] # call.copy[d])

\* C24: one loop iteration of forward_and_pin_message, for the chat d of its
\* position, calls the gateway in the order forward, unpin, pin: the forward first;
\* after a successful forward either the unpin of the message on record for d and
\* then, whatever the unpin returned, the pin of the forwarded copy, or the pin of
\* the copy alone; no unpin without a record.  After a failed forward no other
\* gateway call is made and the pins and the records are as they were.
C24_ForwardUnpinPin ==
    [][report'.op = "fwd_chat" =>
        LET d == target_chats[call.i]
            l == log'
            gw == {k \in 1..Len(l) : l[k].op \in GatewayOps}
        IN  /\ l[1].op = "forward" /\ l[1].d = d /\ l[1].m = call.message_id
            /\ \A k \in gw : l[k].d = d
            /\ l[1].res = "ok" =>
                  \/ /\ pinned_messages[d] # None
                     /\ gw = {1, 2, 3}
                     /\ l[2].op = "unpin" /\ l[2].m = pinned_messages[d]
                     /\ l[3].op = "pin" /\ l[3].m = l[1].c
                  \/ /\ gw = {1, 2}
                     /\ l[2].op = "pin" /\ l[2].m = l[1].c
            /\ l[1].res # "ok" =>
                  /\ gw = {1}
                  /\ UNCHANGED <<chat_pins, pinned_messages>>
      ]_vars

\* C24 witness: the unpin of the previous pinned message failed with an error
\* other than "not found" and the copy was pinned and put on record all the same.
C24_Witness ==
    /\ report.op = "fwd_chat" /\ Len(log) = 4
    /\ log[1].op = "forward" /\ log[1].res = "ok"
    /\ log[2].op = "unpin" /\ log[2].res = "err"
    /\ log[3].op = "pin" /\ log[3].res = "ok"
    /\ log[4].op = "save" /\ log[4].res = "ok"
    /\ pinned_messages[log[1].d] = log[1].c
    /\ {log[2].m, log[1].c} \subseteq chat_pins[log[1].d]

\* C34 (as stated): a target chat's record names a message that is pinned in that
\* chat, after any sequence of publishes, pin failures, sweeps and test pins.
C34_RecordIsPinned ==
    \A d \in Dests :
       pinned_messages[d] # None => pinned_messages[d] \in chat_pins[d]

\* C35 (as stated): every forwarded copy the bot pinned in a target chat and has
\* not unpinned is the one the chat's record names, also after an unpin that
\* failed with an error other than "not found" and after a failed save of the
\* record.  (The message of a test pin in progress is not looked at.)
C35_PinnedIsRecorded ==
    \A d \in Dests :
       \A m \in chat_pins[d] \ {test_pending[d]} : pinned_messages[d] = m

\* C37 (as stated): one call of forward_and_pin_message, the call it makes for the
\* id the search found included, forwards at most one copy to each target chat.
C37_AtMostOneCopy ==
    \A d \in Dests : call.copies[d] <= 1

(***************************************************************************)
(* Properties of SpecSlot.                                                 *)
(***************************************************************************)
\* C29 (as stated): after the activation of a slot whose sweep had every unpin
\* call succeed, once the publish has returned, every record of a target chat is a
\* copy this publish pinned and saved, and when a copy of this publish is pinned
\* in some chat no message that was pinned before the activation is still pinned
\* in any chat: items of two channels are not pinned at the same time.
C29_OneSourceFeatured ==
    (call.pc = "done" /\ call.swept) =>
       /\ \A d \in Dests :
             pinned_messages[d] # None => pinned_messages[d] = call.saved[d]
       /\ (\E e \in Dests : call.copy[e] # None /\ call.copy[e] \in chat_pins[e])
             => \A d \in Dests : call.stale[d] \cap chat_pins[d] = {}

\* C30: a get_chat_info that stores a fetched entry calls on_cache_update of every
\* registered observer exactly once, in the order of registration, whichever of
\* them raise; what it returns and what it leaves in the cache are what they are
\* when no observer raises: the entry with last_updated = the now of the call,
\* stored, less the one entry an eviction takes.  A call whose fetch fails
\* notifies nobody.
C30_ObserversNotified ==
    [][(cache_report'.op = "get_end" /\ Len(cache_pending') < Len(cache_pending)) =>
         /\ cache_report'.notified =>
               /\ cache_report'.called = cache_observers
               /\ \A i, j \in 1..Len(cache_report'.called) :
                     cache_report'.called[i] = cache_report'.called[j] => i = j
               /\ cache_report'.raised \subseteq Registered(cache_observers)
               /\ \E k \in 1..Len(cache_pending) :
                     LET stored == [chat_cache EXCEPT
                                      ![cache_pending[k].chat] = cache_pending[k].now]
                     IN  /\ cache_pending[k].chat = cache_report'.chat
                         /\ cache_report'.ret = cache_pending[k].now
                         /\ chat_cache' =
                               IF cache_report'.evicted = 0 THEN stored
                               ELSE [stored EXCEPT ![cache_report'.evicted] = NoEntry]
         /\ ~cache_report'.notified =>
               cache_report'.called = <<>> /\ cache_report'.raised = {}
      ]_vars

\* C30 witness: two observers, the second registered first; the first one called
\* raised, the other was called after it, and the fetched entry was returned and
\* is in the cache.
C30_Witness ==
    /\ cache_report.op = "get_end" /\ cache_report.notified
    /\ cache_observers = <<2, 1>>
    /\ cache_report.called = <<2, 1>> /\ cache_report.raised = {2}
    /\ cache_report.ret # NoEntry
    /\ chat_cache[cache_report.chat] = cache_report.ret

\* C6 (as stated): one call of forward_and_pin_message attempts to forward at most
\* two distinct message ids, the one it was given and the one the search found.
C6_AtMostOneRetry ==
    Cardinality(call.tried) <= 2

====
